---------------------------- MODULE Spec2Model ----------------------------
(***************************************************************************)
(* Model of capsule-tool.py: the efi_capsule binary codec (construct),     *)
(* sanity_check_capsule, check_capsule_guid, de_authenticate, tamper,      *)
(* extract_image and the __main__ pipeline that chains them.               *)
(*                                                                         *)
(* A byte buffer is a sequence of integers in 0..255.  Integer fields are  *)
(* decoded little-endian from their bytes and encoded back by division,    *)
(* so parse and build are two different computations.  Optional fields     *)
(* (construct.If) hold <<>> for Python's None and <<v>> for a value v.     *)
(***************************************************************************)
EXTENDS Integers, Sequences, FiniteSets, TLC

---------------------------------------------------------------------------
(* Integers and bytes *)

RECURSIVE LEInt(_)
\* construct.IntNul parse: little-endian bytes to integer
LEInt(bs) == IF bs = <<>> THEN 0 ELSE Head(bs) + 256 * LEInt(Tail(bs))

RECURSIVE LEBytes(_, _)
\* construct.IntNul build: integer to n little-endian bytes (low n bytes)
LEBytes(v, n) == IF n = 0 THEN <<>> ELSE <<v % 256>> \o LEBytes(v \div 256, n - 1)

\* struct.pack accepts v for an unsigned n-byte field
IntFits(v, n) == v >= 0 /\ LEInt(LEBytes(v, n)) = v

RECURSIVE BitAnd(_, _)
\* Python's & on non-negative integers
BitAnd(x, y) ==
    IF x = 0 \/ y = 0 THEN 0
    ELSE (IF x % 2 = 1 /\ y % 2 = 1 THEN 1 ELSE 0)
         + 2 * BitAnd(x \div 2, y \div 2)

\* Python's x & ~m for non-negative x and m
AndNot(x, m) == x - BitAnd(x, m)

\* Python's x ^ m for non-negative x and m
BitXor(x, m) == x + m - 2 * BitAnd(x, m)

\* the n bytes of b that follow the first off bytes
Slice(b, off, n) == SubSeq(b, off + 1, off + n)

RECURSIVE Flatten(_)
\* concatenation of a sequence of byte strings
Flatten(ss) == IF ss = <<>> THEN <<>> ELSE Head(ss) \o Flatten(Tail(ss))

---------------------------------------------------------------------------
(* Program constants *)

CAPSULE_FLAGS_PERSIST_ACROSS_RESET == 65536
CAPSULE_FLAGS_POPULATE_SYSTEM_TABLE == 131072
CAPSULE_FLAGS_INITIATE_RESET == 262144

CAPSULE_SUPPORT_AUTHENTICATION == 1
CAPSULE_SUPPORT_DEPENDENCY == 2

WIN_CERT_TYPE_EFI_GUID == 3825

\* sizeof() of the fixed-size substructures the length lambdas subtract
SizeofGuid == 16
SizeofCapsuleHeader == 28
SizeofHdr == 8
SizeofMonotonicCount == 8

---------------------------------------------------------------------------
(* efi_guid *)

efi_guid_parse(b) ==
    [TimeLow |-> LEInt(Slice(b, 0, 4)),
     TimeMid |-> LEInt(Slice(b, 4, 2)),
     TimeHighAndVersion |-> LEInt(Slice(b, 6, 2)),
     ClockSeqHighAndReserved |-> b[9],
     ClockSeqLow |-> b[10],
     Node |-> Slice(b, 10, 6)]

efi_guid_build(g) ==
    LEBytes(g.TimeLow, 4) \o LEBytes(g.TimeMid, 2)
    \o LEBytes(g.TimeHighAndVersion, 2)
    \o <<g.ClockSeqHighAndReserved, g.ClockSeqLow>> \o g.Node

\* 6dcbd5ed-e82d-4c44-bda1-7194199ad92a
EFI_FIRMWARE_MANAGEMENT_CAPSULE_ID_GUID ==
    efi_guid_build([TimeLow |-> 1842075117, TimeMid |-> 59437,
                    TimeHighAndVersion |-> 19524,
                    ClockSeqHighAndReserved |-> 189, ClockSeqLow |-> 161,
                    Node |-> <<113, 148, 25, 154, 217, 42>>])

\* 4aafd29d-68df-49ee-8aa9-347d375665a7
EFI_CERT_TYPE_PKCS7_GUID ==
    efi_guid_build([TimeLow |-> 1253036701, TimeMid |-> 26847,
                    TimeHighAndVersion |-> 18926,
                    ClockSeqHighAndReserved |-> 138, ClockSeqLow |-> 169,
                    Node |-> <<52, 125, 55, 86, 101, 167>>])

---------------------------------------------------------------------------
(* efi_capsule.parse: each step returns [ok, v, next]; next is the stream  *)
(* position after the step.  A negative count (RangeError) or a read past  *)
(* the end of the stream (StreamError) makes the whole parse fail.         *)

ParseFail == [ok |-> FALSE]

\* "CapsuleHeader" / Struct(CapsuleGuid, HeaderSize, Flags, CapsuleImageSize)
ParseCapsuleHeader(b) ==
    IF Len(b) < SizeofCapsuleHeader THEN ParseFail
    ELSE [ok |-> TRUE, next |-> SizeofCapsuleHeader,
          v |-> [CapsuleGuid |-> efi_guid_parse(Slice(b, 0, 16)),
                 HeaderSize |-> LEInt(Slice(b, 16, 4)),
                 Flags |-> LEInt(Slice(b, 20, 4)),
                 CapsuleImageSize |-> LEInt(Slice(b, 24, 4))]]

\* ParseArray when a negative count is clamped to an empty array
ParseArray_Clamped(b, off, count) ==
    LET n == IF count < 0 THEN 0 ELSE count IN
    IF off + n > Len(b) THEN ParseFail
    ELSE [ok |-> TRUE, next |-> off + n, v |-> Slice(b, off, n)]

\* Int8ul[count] at position off
ParseArray(b, off, count) ==
    IF count < 0 \/ off + count > Len(b) THEN ParseFail
    ELSE [ok |-> TRUE, next |-> off + count, v |-> Slice(b, off, count)]

\* "Padding" / Int8ul[HeaderSize - CapsuleHeader.sizeof()]
ParsePadding(b, off, hdr) ==
    ParseArray(b, off, hdr.HeaderSize - SizeofCapsuleHeader)

\* "FirmwareManagementCapsuleHeader" with its ItemOffsetList
ParseFmch(b, off) ==
    IF off + 8 > Len(b) THEN ParseFail
    ELSE LET edc == LEInt(Slice(b, off + 4, 2))
             pic == LEInt(Slice(b, off + 6, 2))
             n == edc + pic
         IN  IF off + 8 + 8 * n > Len(b) THEN ParseFail
             ELSE [ok |-> TRUE, next |-> off + 8 + 8 * n,
                   v |-> [Version |-> LEInt(Slice(b, off, 4)),
                          EmbeddedDriverCount |-> edc,
                          PayloadItemCount |-> pic,
                          ItemOffsetList |->
                              [i \in 1..n |->
                                  LEInt(Slice(b, off + 8 * i, 8))]]]

\* the condition of the If of "UpdateHardwareInstance"
HasUpdateHardwareInstance(ver) == ver >= 2

\* HasImageCapsuleSupport with the threshold of UpdateHardwareInstance
HasImageCapsuleSupport_FromVersion2(ver) == ver >= 2

\* the condition of the If of "ImageCapsuleSupport"
HasImageCapsuleSupport(ver) == ver >= 3

\* "FirmwareManagementCapsuleImageHeader" with its two If fields
ParseFmcih(b, off) ==
    IF off + 32 > Len(b) THEN ParseFail
    ELSE LET ver == LEInt(Slice(b, off, 4))
             uhiLen == IF HasUpdateHardwareInstance(ver) THEN 8 ELSE 0
             icsLen == IF HasImageCapsuleSupport(ver) THEN 8 ELSE 0
         IN  IF off + 32 + uhiLen + icsLen > Len(b) THEN ParseFail
             ELSE [ok |-> TRUE, next |-> off + 32 + uhiLen + icsLen,
                   v |-> [Version |-> ver,
                          UpdateImageTypeId |->
                              efi_guid_parse(Slice(b, off + 4, 16)),
                          UpdateImageIndex |-> b[off + 21],
                          reserved_bytes |-> Slice(b, off + 21, 3),
                          UpdateImageSize |-> LEInt(Slice(b, off + 24, 4)),
                          UpdateVendorCodeSize |->
                              LEInt(Slice(b, off + 28, 4)),
                          UpdateHardwareInstance |->
                              IF HasUpdateHardwareInstance(ver)
                              THEN <<LEInt(Slice(b, off + 32, 8))>>
                              ELSE <<>>,
                          ImageCapsuleSupport |->
                              IF HasImageCapsuleSupport(ver)
                              THEN <<LEInt(Slice(b, off + 32 + uhiLen, 8))>>
                              ELSE <<>>]]

\* IsAuthenticated without the test of the version
IsAuthenticated_FlagOnly(fmcih) ==
    /\ fmcih.ImageCapsuleSupport # <<>>
    /\ BitAnd(fmcih.ImageCapsuleSupport[1],
              CAPSULE_SUPPORT_AUTHENTICATION) # 0

\* the IfThenElse predicate of "BinaryUpdateImage"
IsAuthenticated(fmcih) ==
    \/ fmcih.Version < 3
    \/ BitAnd(fmcih.ImageCapsuleSupport[1],
              CAPSULE_SUPPORT_AUTHENTICATION) # 0

\* Then-branch: FirmwareImageAuthentication followed by FirmwareImage
ParseAuthenticated(b, off, fmcih) ==
    IF off + SizeofMonotonicCount + SizeofHdr + SizeofGuid > Len(b)
    THEN ParseFail
    ELSE LET dw == LEInt(Slice(b, off + 8, 4))
             cert == ParseArray(b, off + 32, dw - SizeofHdr - SizeofGuid)
         IN  IF ~cert.ok THEN ParseFail
             ELSE LET fi == ParseArray(b, cert.next,
                                fmcih.UpdateImageSize
                                - SizeofMonotonicCount - dw)
                  IN  IF ~fi.ok THEN ParseFail
                      ELSE [ok |-> TRUE, next |-> fi.next,
                            v |-> [FirmwareImageAuthentication |->
                                     [MonotonicCount |->
                                          LEInt(Slice(b, off, 8)),
                                      AuthInfo |->
                                        [Hdr |->
                                           [dwLength |-> dw,
                                            wRevision |->
                                              LEInt(Slice(b, off + 12, 2)),
                                            wCertificateType |->
                                              LEInt(Slice(b, off + 14, 2))],
                                         CertType |->
                                           efi_guid_parse(
                                               Slice(b, off + 16, 16)),
                                         CertData |-> cert.v]],
                                   FirmwareImage |-> fi.v]]

\* Else-branch: FirmwareImage only
ParseUnauthenticated(b, off, fmcih) ==
    LET fi == ParseArray(b, off, fmcih.UpdateImageSize)
    IN  IF ~fi.ok THEN ParseFail
        ELSE [ok |-> TRUE, next |-> fi.next,
              v |-> [FirmwareImage |-> fi.v]]

ParseBinaryUpdateImage(b, off, fmcih) ==
    IF IsAuthenticated(fmcih) THEN ParseAuthenticated(b, off, fmcih)
    ELSE ParseUnauthenticated(b, off, fmcih)

\* GreedyBytes when it takes nothing from the stream
GreedyBytes_Nothing(b, off) == <<>>

\* construct.GreedyBytes at position off: every byte up to the end
GreedyBytes(b, off) == Slice(b, off, Len(b) - off)

\* efi_capsule.parse(b): [ok |-> TRUE, v |-> capsule] or [ok |-> FALSE]
Parse(b) ==
    LET hdr == ParseCapsuleHeader(b) IN
    IF ~hdr.ok THEN ParseFail ELSE
    LET pad == ParsePadding(b, hdr.next, hdr.v) IN
    IF ~pad.ok THEN ParseFail ELSE
    LET fmch == ParseFmch(b, pad.next) IN
    IF ~fmch.ok THEN ParseFail ELSE
    LET fmcih == ParseFmcih(b, fmch.next) IN
    IF ~fmcih.ok THEN ParseFail ELSE
    LET bui == ParseBinaryUpdateImage(b, fmcih.next, fmcih.v) IN
    IF ~bui.ok THEN ParseFail ELSE
    [ok |-> TRUE,
     v |-> [CapsuleHeader |-> hdr.v,
            Padding |-> pad.v,
            CapsuleBody |->
              [FirmwareManagementCapsuleHeader |-> fmch.v,
               Payload1 |->
                 [FirmwareManagementCapsuleImageHeader |-> fmcih.v,
                  BinaryUpdateImage |-> bui.v]],
            RemainingBytes |-> GreedyBytes(b, bui.next)]]

---------------------------------------------------------------------------
(* efi_capsule.build: each step returns [ok, bytes].  An integer that does *)
(* not fit its field, an array whose length is not its computed count, or  *)
(* a missing key makes the whole build fail; the fields before it have     *)
(* been written to the stream by then.                                     *)

\* bytes holds what reached the stream before the failure
BuildFail == [ok |-> FALSE, bytes |-> <<>>]

\* IntNul build of v on n bytes
BuildInt(v, n) ==
    IF IntFits(v, n) THEN [ok |-> TRUE, bytes |-> LEBytes(v, n)]
    ELSE BuildFail

\* Int8ul[count] build of the list xs
BuildArray(xs, count) ==
    IF count < 0 \/ Len(xs) # count
       \/ \E i \in 1..Len(xs) : ~IntFits(xs[i], 1)
    THEN BuildFail
    ELSE [ok |-> TRUE, bytes |-> xs]

\* Struct build: the concatenation of the parts, failing if one part fails
BuildSeq(parts) ==
    IF \E i \in 1..Len(parts) : ~parts[i].ok
    THEN LET k == CHOOSE i \in 1..Len(parts) :
                      ~parts[i].ok /\ \A j \in 1..(i - 1) : parts[j].ok
         IN  [ok |-> FALSE,
              bytes |-> Flatten([i \in 1..k |-> parts[i].bytes])]
    ELSE [ok |-> TRUE,
          bytes |-> Flatten([i \in 1..Len(parts) |-> parts[i].bytes])]

BuildGuid(g) ==
    BuildSeq(<<BuildInt(g.TimeLow, 4), BuildInt(g.TimeMid, 2),
               BuildInt(g.TimeHighAndVersion, 2),
               BuildInt(g.ClockSeqHighAndReserved, 1),
               BuildInt(g.ClockSeqLow, 1), BuildArray(g.Node, 6)>>)

BuildCapsuleHeader(h) ==
    BuildSeq(<<BuildGuid(h.CapsuleGuid), BuildInt(h.HeaderSize, 4),
               BuildInt(h.Flags, 4), BuildInt(h.CapsuleImageSize, 4)>>)

\* BuildPadding without the Padding array
BuildPadding_Omitted(c) == [ok |-> TRUE, bytes |-> <<>>]

BuildPadding(c) ==
    BuildArray(c.Padding, c.CapsuleHeader.HeaderSize - SizeofCapsuleHeader)

BuildFmch(f) ==
    LET n == f.EmbeddedDriverCount + f.PayloadItemCount IN
    IF Len(f.ItemOffsetList) # n THEN BuildFail
    ELSE BuildSeq(<<BuildInt(f.Version, 4),
                    BuildInt(f.EmbeddedDriverCount, 2),
                    BuildInt(f.PayloadItemCount, 2)>>
                  \o [i \in 1..n |-> BuildInt(f.ItemOffsetList[i], 8)])

\* construct.If build: the field when the condition holds, else nothing
BuildIf(cond, x, n) ==
    IF ~cond THEN [ok |-> TRUE, bytes |-> <<>>]
    ELSE IF x = <<>> THEN BuildFail
    ELSE BuildInt(x[1], n)

BuildFmcih(f) ==
    BuildSeq(<<BuildInt(f.Version, 4), BuildGuid(f.UpdateImageTypeId),
               BuildInt(f.UpdateImageIndex, 1),
               BuildArray(f.reserved_bytes, 3),
               BuildInt(f.UpdateImageSize, 4),
               BuildInt(f.UpdateVendorCodeSize, 4),
               BuildIf(HasUpdateHardwareInstance(f.Version),
                       f.UpdateHardwareInstance, 8),
               BuildIf(HasImageCapsuleSupport(f.Version),
                       f.ImageCapsuleSupport, 8)>>)

BuildAuthenticated(bui, fmcih) ==
    IF "FirmwareImageAuthentication" \notin DOMAIN bui THEN BuildFail
    ELSE LET fia == bui.FirmwareImageAuthentication
             ai == fia.AuthInfo
         IN  BuildSeq(<<BuildInt(fia.MonotonicCount, 8),
                        BuildInt(ai.Hdr.dwLength, 4),
                        BuildInt(ai.Hdr.wRevision, 2),
                        BuildInt(ai.Hdr.wCertificateType, 2),
                        BuildGuid(ai.CertType),
                        BuildArray(ai.CertData,
                                   ai.Hdr.dwLength - SizeofHdr - SizeofGuid),
                        BuildArray(bui.FirmwareImage,
                                   fmcih.UpdateImageSize
                                   - SizeofMonotonicCount
                                   - ai.Hdr.dwLength)>>)

BuildUnauthenticated(bui, fmcih) ==
    BuildArray(bui.FirmwareImage, fmcih.UpdateImageSize)

BuildBinaryUpdateImage(bui, fmcih) ==
    IF fmcih.Version >= 3 /\ fmcih.ImageCapsuleSupport = <<>> THEN BuildFail
    ELSE IF IsAuthenticated(fmcih) THEN BuildAuthenticated(bui, fmcih)
    ELSE BuildUnauthenticated(bui, fmcih)

\* efi_capsule.build(c): [ok |-> TRUE, bytes |-> b] or [ok |-> FALSE]
Build(c) ==
    LET p1 == c.CapsuleBody.Payload1 IN
    BuildSeq(<<BuildCapsuleHeader(c.CapsuleHeader),
               BuildPadding(c),
               BuildFmch(c.CapsuleBody.FirmwareManagementCapsuleHeader),
               BuildFmcih(p1.FirmwareManagementCapsuleImageHeader),
               BuildBinaryUpdateImage(
                   p1.BinaryUpdateImage,
                   p1.FirmwareManagementCapsuleImageHeader),
               [ok |-> TRUE, bytes |-> c.RemainingBytes]>>)

---------------------------------------------------------------------------
(* Input files.  An input is the concatenation of one byte string per      *)
(* field of the format, in stream order.  The well-formed input is a       *)
(* version 3 authenticated capsule with an n-byte firmware image; the      *)
(* other inputs replace the bytes of one or two fields by other bytes.     *)
(* Integer fields stay below 2^31, the range of the model checker.         *)

\* longest firmware image of a generated input
MaxImageLen == 1

ChunkOrder ==
    <<"CapsuleGuid", "HeaderSize", "Flags", "CapsuleImageSize", "Padding",
      "FmchVersion", "EmbeddedDriverCount", "PayloadItemCount",
      "ItemOffsetList", "ImgVersion", "UpdateImageTypeId",
      "UpdateImageIndex", "reserved_bytes", "UpdateImageSize",
      "UpdateVendorCodeSize", "UpdateHardwareInstance",
      "ImageCapsuleSupport", "MonotonicCount", "dwLength", "wRevision",
      "wCertificateType", "CertType", "CertData", "FirmwareImage",
      "RemainingBytes">>

\* the bytes of an n-byte firmware image
ImageBytes(n) == [i \in 1..n |-> (37 * i + 158) % 256]

\* a well-formed authenticated capsule, field by field
BaseChunks(n) ==
    [CapsuleGuid |-> <<237, 213, 203, 109, 45, 232, 68, 76,
                       189, 161, 113, 148, 25, 154, 217, 42>>,
     HeaderSize |-> <<28, 0, 0, 0>>,
     Flags |-> <<0, 0, 5, 0>>,
     CapsuleImageSize |-> <<124 + n, 0, 0, 0>>,
     Padding |-> <<>>,
     FmchVersion |-> <<1, 0, 0, 0>>,
     EmbeddedDriverCount |-> <<0, 0>>,
     PayloadItemCount |-> <<1, 0>>,
     ItemOffsetList |-> <<16, 0, 0, 0, 0, 0, 0, 0>>,
     ImgVersion |-> <<3, 0, 0, 0>>,
     UpdateImageTypeId |-> <<120, 86, 52, 18, 52, 18, 120, 70,
                             146, 52, 86, 120, 154, 188, 222, 240>>,
     UpdateImageIndex |-> <<1>>,
     reserved_bytes |-> <<0, 0, 0>>,
     UpdateImageSize |-> <<32 + n, 0, 0, 0>>,
     UpdateVendorCodeSize |-> <<0, 0, 0, 0>>,
     UpdateHardwareInstance |-> <<7, 0, 0, 0, 0, 0, 0, 0>>,
     ImageCapsuleSupport |-> <<1, 0, 0, 0, 0, 0, 0, 0>>,
     MonotonicCount |-> <<9, 1, 0, 0, 0, 0, 0, 0>>,
     dwLength |-> <<24, 0, 0, 0>>,
     wRevision |-> <<0, 2>>,
     wCertificateType |-> <<241, 14>>,
     CertType |-> <<157, 210, 175, 74, 223, 104, 238, 73,
                    138, 169, 52, 125, 55, 86, 101, 167>>,
     CertData |-> <<>>,
     FirmwareImage |-> ImageBytes(n),
     RemainingBytes |-> <<>>]

\* replacements that bear on one validation rule or one length formula
RuleDeviations(n) ==
    {[CapsuleGuid |-> <<237, 213, 203, 109, 45, 232, 68, 76,
                        189, 161, 113, 148, 25, 154, 217, 43>>],
     [HeaderSize |-> <<30, 0, 0, 0>>, Padding |-> <<170, 187>>],
     [HeaderSize |-> <<20, 0, 0, 0>>],
     [Flags |-> <<1, 0, 1, 0>>],
     [Flags |-> <<0, 0, 8, 0>>],
     [CapsuleImageSize |-> <<10, 0, 0, 0>>],
     [CapsuleImageSize |-> <<28, 0, 0, 0>>],
     [FmchVersion |-> <<2, 0, 0, 0>>],
     [EmbeddedDriverCount |-> <<1, 0>>,
      ItemOffsetList |-> <<16, 0, 0, 0, 0, 0, 0, 0,
                           24, 0, 0, 0, 0, 0, 0, 0>>],
     [PayloadItemCount |-> <<2, 0>>,
      ItemOffsetList |-> <<24, 0, 0, 0, 0, 0, 0, 0,
                           24, 1, 0, 0, 0, 0, 0, 0>>],
     [PayloadItemCount |-> <<0, 0>>, ItemOffsetList |-> <<>>],
     [reserved_bytes |-> <<0, 1, 0>>],
     [UpdateImageSize |-> <<33 + n, 0, 0, 0>>],
     [UpdateImageSize |-> <<31 + n, 0, 0, 0>>],
     [UpdateImageSize |-> <<7, 0, 0, 0>>],
     [UpdateVendorCodeSize |-> <<4, 0, 0, 0>>],
     [ImageCapsuleSupport |-> <<3, 0, 0, 0, 0, 0, 0, 0>>],
     [ImageCapsuleSupport |-> <<5, 0, 0, 0, 0, 0, 0, 0>>],
     [dwLength |-> <<26, 0, 0, 0>>, CertData |-> <<204, 221>>,
      UpdateImageSize |-> <<34 + n, 0, 0, 0>>],
     [dwLength |-> <<8, 0, 0, 0>>],
     [wRevision |-> <<0, 1>>],
     [wCertificateType |-> <<240, 14>>],
     [CertType |-> <<157, 210, 175, 74, 223, 104, 238, 73,
                     138, 169, 52, 125, 55, 86, 101, 166>>],
     [RemainingBytes |-> <<85>>],
     [FirmwareImage |-> <<>>],
     [CertType |-> <<>>, CertData |-> <<>>, FirmwareImage |-> <<>>]}

\* replacements that change the layout: image-header version and variant
ShapeDeviations(n) ==
    {[ImgVersion |-> <<2, 0, 0, 0>>, ImageCapsuleSupport |-> <<>>],
     [ImgVersion |-> <<1, 0, 0, 0>>, ImageCapsuleSupport |-> <<>>,
      UpdateHardwareInstance |-> <<>>],
     [ImgVersion |-> <<4, 0, 0, 0>>],
     [ImageCapsuleSupport |-> <<0, 0, 0, 0, 0, 0, 0, 0>>,
      UpdateImageSize |-> <<n, 0, 0, 0>>,
      MonotonicCount |-> <<>>, dwLength |-> <<>>, wRevision |-> <<>>,
      wCertificateType |-> <<>>, CertType |-> <<>>, CertData |-> <<>>]}

\* other UpdateImageTypeId values: a second version 4 GUID, the NCS
\* variant, version 2, and version 1 with times in 1582, 2022 and 5236
GuidDeviations ==
    {[UpdateImageTypeId |-> <<120, 86, 52, 34, 52, 18, 120, 70,
                              146, 52, 86, 120, 154, 188, 222, 240>>],
     [UpdateImageTypeId |-> <<120, 86, 52, 18, 52, 18, 120, 86,
                              18, 52, 86, 120, 154, 188, 222, 240>>],
     [UpdateImageTypeId |-> <<120, 86, 52, 18, 52, 18, 120, 38,
                              146, 52, 86, 120, 154, 188, 222, 240>>],
     [UpdateImageTypeId |-> <<0, 0, 0, 0, 0, 0, 0, 16,
                              145, 236, 82, 84, 0, 18, 52, 86>>],
     [UpdateImageTypeId |-> <<18, 137, 78, 123, 50, 103, 237, 17,
                              145, 236, 82, 84, 0, 18, 52, 86>>],
     [UpdateImageTypeId |-> <<255, 255, 255, 127, 255, 255, 255, 31,
                              145, 236, 82, 84, 0, 18, 52, 86>>]}

\* two replacements of different fields
Pairs(S) ==
    {{d, e} : <<d, e>> \in
        {p \in S \X S : (DOMAIN p[1]) \cap (DOMAIN p[2]) = {}}}

\* no deviation or one deviation; for the one-byte image also two
\* deviations of different fields
DeviationSets(n) ==
    {{}}
    \cup {{d} : d \in RuleDeviations(n) \cup ShapeDeviations(n)
                      \cup GuidDeviations}
    \cup (IF n = 1
          THEN Pairs(RuleDeviations(n) \cup ShapeDeviations(n))
          ELSE {})

\* the bytes of field f under the deviations D
Chunk(n, D, f) ==
    IF \E d \in D : f \in DOMAIN d
    THEN (CHOOSE d \in D : f \in DOMAIN d)[f]
    ELSE BaseChunks(n)[f]

InputFile(n, D) ==
    Flatten([i \in 1..Len(ChunkOrder) |-> Chunk(n, D, ChunkOrder[i])])

Inputs ==
    UNION {{InputFile(n, D) : D \in DeviationSets(n)} : n \in 0..MaxImageLen}

---------------------------------------------------------------------------
(* guid.Guid.  A string is a sequence of character codes.                  *)

\* value of a hexadecimal digit character, -1 for any other character
HexDigitValue(ch) ==
    IF ch \in 48..57 THEN ch - 48
    ELSE IF ch \in 97..102 THEN ch - 87
    ELSE IF ch \in 65..70 THEN ch - 55
    ELSE 0 - 1

RECURSIVE HexInt(_)
\* int(s, base=16) of a string of hexadecimal digits
HexInt(s) ==
    IF s = <<>> THEN 0
    ELSE 16 * HexInt(SubSeq(s, 1, Len(s) - 1)) + HexDigitValue(s[Len(s)])

RECURSIVE HexStr(_, _)
\* format(v, '0<w>x'): w lower-case hexadecimal digits, most significant first
HexStr(v, w) ==
    IF w = 0 THEN <<>>
    ELSE HexStr(v \div 16, w - 1)
         \o <<IF v % 16 < 10 THEN 48 + (v % 16) ELSE 87 + (v % 16)>>

\* int.to_bytes(n, byteorder='big')
BEBytes(v, n) == [i \in 1..n |-> LEBytes(v, n)[n + 1 - i]]

\* the regular expression of Guid.__init__, matched with re.IGNORECASE;
\* its final $ also matches before one trailing newline
GuidStrMatches(s) ==
    /\ Len(s) \in {36, 37}
    /\ Len(s) = 37 => s[37] = 10
    /\ \A i \in 1..36 :
          IF i \in {9, 14, 19, 24} THEN s[i] = 45
          ELSE HexDigitValue(s[i]) >= 0

\* Guid.__init__, string branch: the 16 bytes stored in b
GuidStrBytes(s) ==
    LEBytes(HexInt(SubSeq(s, 1, 8)), 4)
    \o LEBytes(HexInt(SubSeq(s, 10, 13)), 2)
    \o LEBytes(HexInt(SubSeq(s, 15, 18)), 2)
    \o BEBytes(HexInt(SubSeq(s, 20, 23)), 2)
    \o [i \in 1..6 |-> HexInt(SubSeq(s, 23 + 2 * i, 24 + 2 * i))]

\* Guid.fields; the 48-bit node is kept as its six bytes, first byte most
\* significant
GuidFields(b) ==
    <<LEInt(Slice(b, 0, 4)), LEInt(Slice(b, 4, 2)), LEInt(Slice(b, 6, 2)),
      b[9], b[10], Slice(b, 10, 6)>>

\* Guid.__str__
GuidStr(b) ==
    LET f == GuidFields(b) IN
    HexStr(f[1], 8) \o <<45>> \o HexStr(f[2], 4) \o <<45>>
    \o HexStr(f[3], 4) \o <<45>> \o HexStr(f[4], 2) \o HexStr(f[5], 2)
    \o <<45>> \o Flatten([i \in 1..6 |-> HexStr(f[6][i], 2)])

\* uuid.UUID.variant is RFC_4122: the two top bits of clock_seq_hi are 10
VariantIsRfc4122(b) == GuidFields(b)[4] \div 64 = 2

\* uuid.UUID.version
GuidVersion(b) == GuidFields(b)[3] \div 4096

\* uuid.UUID.time, in 100 ns since 1582-10-15, as its 12 + 16 + 16 + 16
\* bits from the most significant down
GuidTime(b) ==
    LET f == GuidFields(b) IN
    <<f[3] % 4096, f[2], f[1] \div 65536, f[1] % 65536>>

\* t < u for two such times
TimeBefore(t, u) ==
    \E i \in 1..4 : t[i] < u[i] /\ \A j \in 1..(i - 1) : t[j] = u[j]

\* datetime.datetime(1998, 1, 1), as a uuid time
Time1998 == <<465, 33339, 29218, 32768>>

\* the clock of the run plus the one day of margin (2026-11-03)
TimeNowPlusMargin == <<497, 55065, 33579, 16384>>

\* the checks at the end of Guid.__init__: TRUE when no ValueError is raised
GuidValid(b) ==
    /\ VariantIsRfc4122(b)
    /\ GuidVersion(b) \in {1, 3, 4, 5}
    /\ GuidVersion(b) = 1 =>
          /\ ~TimeBefore(GuidTime(b), Time1998)
          /\ ~TimeBefore(TimeNowPlusMargin, GuidTime(b))

\* guid.Guid(x) for bytes x: [ok |-> TRUE, b |-> x] or a ValueError
GuidFromBytes(x) ==
    IF Len(x) # 16 \/ ~GuidValid(x) THEN [ok |-> FALSE, b |-> <<>>]
    ELSE [ok |-> TRUE, b |-> x]

\* guid.Guid(x) for a string x
GuidFromStr(x) ==
    IF ~GuidStrMatches(x) THEN [ok |-> FALSE, b |-> <<>>]
    ELSE GuidFromBytes(GuidStrBytes(x))

---------------------------------------------------------------------------
(* sanity_check_capsule.  A lambda of the checks list either returns or    *)
(* raises: reading FirmwareImageAuthentication on a BinaryUpdateImage      *)
(* without that key raises AttributeError, and None & int raises           *)
(* TypeError.                                                              *)

NumChecks == 19

Fmch(c) == c.CapsuleBody.FirmwareManagementCapsuleHeader
Fmcih(c) == c.CapsuleBody.Payload1.FirmwareManagementCapsuleImageHeader
Bui(c) == c.CapsuleBody.Payload1.BinaryUpdateImage

HasAuthentication(c) == "FirmwareImageAuthentication" \in DOMAIN Bui(c)
AuthHdr(c) == Bui(c).FirmwareImageAuthentication.AuthInfo.Hdr

\* Readable when entries 12 to 14 read ImageCapsuleSupport before they
\* test the version
Readable_NoVersionTest(k, c) ==
    CASE k \in 12..14 -> Fmcih(c).ImageCapsuleSupport # <<>>
      [] k \in 15..18 -> HasAuthentication(c)
      [] OTHER -> TRUE

\* the lambdas of entry k read a path that exists in c
Readable(k, c) ==
    CASE k \in 12..14 ->
           Fmcih(c).Version < 3 \/ Fmcih(c).ImageCapsuleSupport # <<>>
      [] k \in 15..18 -> HasAuthentication(c)
      [] OTHER -> TRUE

\* the truth value of x['check'](capsule) for entry k, when it returns
CheckHolds(k, c) ==
    CASE k = 1 ->
           efi_guid_build(c.CapsuleHeader.CapsuleGuid)
           = EFI_FIRMWARE_MANAGEMENT_CAPSULE_ID_GUID
      [] k = 2 -> c.CapsuleHeader.HeaderSize >= 28
      [] k = 3 ->
           AndNot(c.CapsuleHeader.Flags,
                  CAPSULE_FLAGS_PERSIST_ACROSS_RESET
                  + CAPSULE_FLAGS_POPULATE_SYSTEM_TABLE
                  + CAPSULE_FLAGS_INITIATE_RESET) = 0
      [] k = 4 -> c.CapsuleHeader.CapsuleImageSize >= 28
      [] k = 5 -> Fmch(c).Version = 1
      [] k = 6 -> Fmch(c).EmbeddedDriverCount = 0
      [] k = 7 -> Fmch(c).PayloadItemCount = 1
      [] k = 8 -> Fmcih(c).Version = 3
      [] k = 9 -> Fmcih(c).reserved_bytes = <<0, 0, 0>>
      [] k = 10 -> Fmcih(c).UpdateImageSize > 32
      [] k = 11 -> Fmcih(c).UpdateVendorCodeSize = 0
      [] k = 12 ->
           \/ Fmcih(c).Version < 3
           \/ AndNot(Fmcih(c).ImageCapsuleSupport[1],
                     CAPSULE_SUPPORT_AUTHENTICATION
                     + CAPSULE_SUPPORT_DEPENDENCY) = 0
      [] k = 13 ->
           \/ Fmcih(c).Version < 3
           \/ BitAnd(Fmcih(c).ImageCapsuleSupport[1],
                     CAPSULE_SUPPORT_DEPENDENCY) = 0
      [] k = 14 ->
           \/ Fmcih(c).Version < 3
           \/ BitAnd(Fmcih(c).ImageCapsuleSupport[1],
                     CAPSULE_SUPPORT_AUTHENTICATION) # 0
      [] k = 15 -> AuthHdr(c).dwLength >= 9
      [] k = 16 -> AuthHdr(c).wRevision = 512
      [] k = 17 -> AuthHdr(c).wCertificateType = WIN_CERT_TYPE_EFI_GUID
      [] k = 18 ->
           efi_guid_build(
               Bui(c).FirmwareImageAuthentication.AuthInfo.CertType)
           = EFI_CERT_TYPE_PKCS7_GUID
      [] k = 19 -> Len(c.RemainingBytes) = 0

\* what the body of the try statement does for entry k:
\* "debug" (check true, debug message logged), "error" (check false, error
\* message logged) or "raise" (an exception left the try body)
TryBody(k, c) ==
    IF ~Readable(k, c) THEN "raise"
    ELSE IF CheckHolds(k, c) THEN "debug"
    ELSE "error"

\* Iteration without the except clause
Iteration_NoExcept(k, c) ==
    LET t == TryBody(k, c) IN
    [caught |-> FALSE,
     propagates |-> t = "raise",
     rOk |-> t = "debug",
     record |-> [level |-> IF t = "error" THEN "ERROR" ELSE "DEBUG",
                 entry |-> k, what |-> t]]

\* one iteration of the for loop: the except clause turns an exception
\* into a debug record and r = False
Iteration(k, c) ==
    LET t == TryBody(k, c) IN
    [caught |-> t = "raise",
     propagates |-> FALSE,
     rOk |-> t = "debug",
     record |-> [level |-> IF t = "error" THEN "ERROR" ELSE "DEBUG",
                 entry |-> k, what |-> t]]

\* RAfter when the last entry's outcome is not folded into r
RAfter_OffByOne(c, k) == \A j \in 1..(k - 1) : Iteration(j, c).rOk

\* r after the iterations for entries 1..k
RAfter(c, k) == \A j \in 1..k : Iteration(j, c).rOk

\* Breaks when the loop has no break statement
Breaks_Never(c, force, k) == FALSE

\* Breaks when the break statement does not test force
Breaks_IgnoresForce(c, force, k) == ~RAfter(c, k)

\* the statement "if not r and not force: break" after entry k
Breaks(c, force, k) == ~RAfter(c, k) /\ ~force

\* an exception leaves the loop at entry k
Propagates(c, k) == Iteration(k, c).propagates

\* the for loop reaches entry k
Reached(c, force, k) ==
    \A j \in 1..(k - 1) : ~Breaks(c, force, j) /\ ~Propagates(c, j)

\* the number of entries the for loop evaluates
NumEvaluated(c, force) ==
    Cardinality({k \in 1..NumChecks : Reached(c, force, k)})

\* sanity_check_capsule(capsule, force): the value returned, the entries
\* evaluated, the log records and the lines printed; raised when an
\* exception left the function
SanityCheck(c, force) ==
    LET n == NumEvaluated(c, force)
        raised == Propagates(c, n)
        r == RAfter(c, n)
        records == [k \in 1..n |-> Iteration(k, c).record]
    IN  [raised |-> raised,
         evaluated |-> [k \in 1..n |-> k],
         log |-> IF ~raised /\ ~r /\ force
                 THEN Append(records, [level |-> "WARNING", entry |-> 0,
                                       what |-> "forced"])
                 ELSE records,
         stdout |-> IF ~raised /\ r
                    THEN <<[line |->
                             "Valid authenticated capsule in FMP format"]>>
                    ELSE <<>>,
         r |-> IF raised THEN FALSE ELSE r \/ force]

---------------------------------------------------------------------------
(* check_capsule_guid *)

\* what the guid tool subprocess can answer: a non-zero return code, the
\* line Unknown, or a description
ToolAnswers == {"failed", "Unknown", "description"}

\* BadGuidTool when force makes the script go on without the tool
BadGuidTool_Forceable(tool, force) == tool = "failed" /\ ~force

\* the test "if cp.returncode" that ends the run
BadGuidTool(tool, force) == tool = "failed"

\* check_capsule_guid(capsule, guid_tool, exp_guid, force, print_guid) when
\* the subprocess answers tool.  exp_guid is <<>> for None.  outcome is
\* "return" (r is the value returned), "exit" (sys.exit(1)) or "raise" (a
\* ValueError of guid.Guid leaves the function); tool is the answer of
\* the subprocess, "none" when it was not run
CheckCapsuleGuid(c, tool, exp_guid, force, print_guid) ==
    LET g == GuidFromBytes(efi_guid_build(Fmcih(c).UpdateImageTypeId))
        printed == IF print_guid
                   THEN <<[line |-> "Image type id GUID", guid |-> GuidStr(g.b)]>>
                   ELSE <<>>
        known == IF tool = "Unknown"
                 THEN [stdout |-> <<[line |-> "is unknown", guid |-> GuidStr(g.b)]>>,
                       log |-> <<>>]
                 ELSE [stdout |-> <<>>,
                       log |-> <<[level |-> "WARNING", what |-> "is known"]>>]
        e == GuidFromStr(exp_guid)
    IN  IF ~g.ok
        THEN [outcome |-> "raise", tool |-> "none", r |-> FALSE,
              stdout |-> <<>>, log |-> <<>>]
        ELSE IF BadGuidTool(tool, force)
        THEN [outcome |-> "exit", tool |-> tool, r |-> FALSE,
              stdout |-> printed,
              log |-> <<[level |-> "ERROR", what |-> "Bad guid tool"]>>]
        ELSE IF exp_guid = <<>>
        THEN [outcome |-> "return", tool |-> tool, r |-> TRUE,
              stdout |-> printed \o known.stdout, log |-> known.log]
        ELSE IF ~e.ok
        THEN [outcome |-> "raise", tool |-> tool, r |-> FALSE,
              stdout |-> printed \o known.stdout, log |-> known.log]
        ELSE IF g.b = e.b
        THEN [outcome |-> "return", tool |-> tool, r |-> TRUE,
              stdout |-> printed \o known.stdout
                         \o <<[line |-> "is the expected one",
                               guid |-> GuidStr(g.b)]>>,
              log |-> known.log]
        ELSE [outcome |-> "return", tool |-> tool, r |-> FALSE,
              stdout |-> printed \o known.stdout,
              log |-> known.log
                      \o <<[level |-> "ERROR", what |-> "while expecting"]>>
                      \o (IF force
                          THEN <<[level |-> "WARNING",
                                  what |-> "forced"]>>
                          ELSE <<>>)]

---------------------------------------------------------------------------
(* de_authenticate, tamper, extract_image *)

\* the capsule with field f of its image header set to x
WithFmcih(c, f, x) ==
    [c EXCEPT !.CapsuleBody.Payload1.FirmwareManagementCapsuleImageHeader =
                  [@ EXCEPT ![f] = x]]

\* ObsoleteVersion when the test is "fmcih.Version < 2"
ObsoleteVersion_Below2(c) == Fmcih(c).Version < 2

\* the test "fmcih.Version < 3" that guards de_authenticate
ObsoleteVersion(c) == Fmcih(c).Version < 3

\* ClearAuthenticationFlag when the flag is left as it is
ClearAuthenticationFlag_Keeps(ics) == ics

\* ClearAuthenticationFlag when the flag is toggled (ics ^= ...)
ClearAuthenticationFlag_Toggle(ics) ==
    BitXor(ics, CAPSULE_SUPPORT_AUTHENTICATION)

\* ics &= ~CAPSULE_SUPPORT_AUTHENTICATION
ClearAuthenticationFlag(ics) == AndNot(ics, CAPSULE_SUPPORT_AUTHENTICATION)

\* AuthenticationSize without the MonotonicCount
AuthenticationSize_NoMonotonicCount(c) == AuthHdr(c).dwLength

\* fiasz: the size of the authentication that is removed
AuthenticationSize(c) == AuthHdr(c).dwLength + 8

\* DeAuthenticate when the deletion empties the BinaryUpdateImage
DeAuthenticate_DropsImage(c) ==
    IF ObsoleteVersion(c) THEN [outcome |-> "exit", v |-> c]
    ELSE IF Fmcih(c).ImageCapsuleSupport = <<>>
    THEN [outcome |-> "raise", v |-> c]
    ELSE
    LET ics == ClearAuthenticationFlag(Fmcih(c).ImageCapsuleSupport[1])
        c1 == WithFmcih(c, "ImageCapsuleSupport", <<ics>>)
    IN  IF ~HasAuthentication(c1) THEN [outcome |-> "raise", v |-> c1]
        ELSE
        LET fiasz == AuthenticationSize(c1)
            c2 == [c1 EXCEPT !.CapsuleHeader.CapsuleImageSize = @ - fiasz]
            c3 == WithFmcih(c2, "UpdateImageSize",
                            Fmcih(c2).UpdateImageSize - fiasz)
            c4 == [c3 EXCEPT !.CapsuleBody.Payload1.BinaryUpdateImage =
                                [FirmwareImage |-> <<>>]]
        IN  [outcome |-> "return", v |-> c4]

\* de_authenticate(capsule): outcome "return", "exit" (sys.exit(1)) or
\* "raise" (TypeError or AttributeError); v is the capsule object as the
\* call leaves it
DeAuthenticate(c) ==
    IF ObsoleteVersion(c) THEN [outcome |-> "exit", v |-> c]
    ELSE IF Fmcih(c).ImageCapsuleSupport = <<>>
    THEN [outcome |-> "raise", v |-> c]
    ELSE
    LET ics == ClearAuthenticationFlag(Fmcih(c).ImageCapsuleSupport[1])
        c1 == WithFmcih(c, "ImageCapsuleSupport", <<ics>>)
    IN  IF ~HasAuthentication(c1) THEN [outcome |-> "raise", v |-> c1]
        ELSE
        LET fiasz == AuthenticationSize(c1)
            c2 == [c1 EXCEPT !.CapsuleHeader.CapsuleImageSize = @ - fiasz]
            c3 == WithFmcih(c2, "UpdateImageSize",
                            Fmcih(c2).UpdateImageSize - fiasz)
            c4 == [c3 EXCEPT !.CapsuleBody.Payload1.BinaryUpdateImage =
                                [FirmwareImage |-> @.FirmwareImage]]
        IN  [outcome |-> "return", v |-> c4]

RECURSIVE Shl1(_)
\* 1 << b
Shl1(b) == IF b = 0 THEN 1 ELSE 2 * Shl1(b - 1)

\* Tamper when the bit is set instead of inverted (fi[n] |= 1 << b)
Tamper_SetsBit(c, n, b) ==
    [c EXCEPT !.CapsuleBody.Payload1.BinaryUpdateImage.FirmwareImage =
                  [@ EXCEPT ![n + 1] =
                       IF (@ \div Shl1(b)) % 2 = 1 THEN @ ELSE @ + Shl1(b)]]

\* tamper(capsule) once random.randint has returned n and b
Tamper(c, n, b) ==
    [c EXCEPT !.CapsuleBody.Payload1.BinaryUpdateImage.FirmwareImage =
                  [@ EXCEPT ![n + 1] = BitXor(@, Shl1(b))]]

\* ExtractImage when the whole BinaryUpdateImage is written
ExtractImage_WithAuthentication(c) ==
    BuildBinaryUpdateImage(Bui(c), Fmcih(c)).bytes

\* the bytes extract_image writes
ExtractImage(c) == Bui(c).FirmwareImage

---------------------------------------------------------------------------
(* The run of __main__ on one input file.                                  *)
(*                                                                         *)
(* steps is the sequence of steps executed so far; status is "running",    *)
(* "exit0" (the end of the script), "exit1" (sys.exit(1)) or "traceback"   *)
(* (an uncaught exception, which also ends the process with status 1).     *)
(* args holds the command-line options; an option is chosen when the       *)
(* script first reads it and holds its argparse default until then.        *)

VARIABLES file, args, steps, status, capsule, decoded, checks, guidCheck,
          stdout, log, extracted, saved

vars == <<file, args, steps, status, capsule, decoded, checks, guidCheck,
          stdout, log, extracted, saved>>

\* most options other than --force given on one command line
MaxOptions == 2

\* "12345678-1234-4678-9234-56789abcdef0"
GuidStrA ==
    <<49, 50, 51, 52, 53, 54, 55, 56, 45, 49, 50, 51, 52, 45, 52, 54,
      55, 56, 45, 57, 50, 51, 52, 45, 53, 54, 55, 56, 57, 97, 98, 99,
      100, 101, 102, 48>>

\* "22345678-1234-4678-9234-56789ABCDEF0"
GuidStrB ==
    <<50, 50, 51, 52, 53, 54, 55, 56, 45, 49, 50, 51, 52, 45, 52, 54,
      55, 56, 45, 57, 50, 51, 52, 45, 53, 54, 55, 56, 57, 65, 66, 67,
      68, 69, 70, 48>>

\* "Hello"
GuidStrHello == <<72, 101, 108, 108, 111>>

\* "09D7CF52-0720-4710-91D1-08469B7FE9C8"
GuidStrZeroes ==
    <<48, 57, 68, 55, 67, 70, 53, 50, 45, 48, 55, 50, 48, 45, 52, 55,
      49, 48, 45, 57, 49, 68, 49, 45, 48, 56, 52, 54, 57, 66, 55, 70,
      69, 57, 67, 56>>

\* "09D7CF52-0720-4710-91D1-08469B7FE9C8" followed by a newline character
GuidStrNewline == GuidStrZeroes \o <<10>>

\* the values of --expected-guid
ExpectedGuids ==
    {GuidStrA, GuidStrB, GuidStrHello, GuidStrZeroes, GuidStrNewline}

NoCapsule == <<>>
NoFile == [written |-> FALSE, complete |-> FALSE, bytes |-> <<>>]
NoChecks == [raised |-> FALSE, evaluated |-> <<>>, log |-> <<>>,
             stdout |-> <<>>, r |-> FALSE]
NoGuidCheck == [outcome |-> "none", tool |-> "none", r |-> FALSE,
                stdout |-> <<>>,
                log |-> <<>>]

DefaultArgs ==
    [force |-> FALSE, expected_guid |-> <<>>, print_guid |-> FALSE,
     de_authenticate |-> FALSE, tamper |-> FALSE, dump |-> FALSE,
     extract |-> FALSE, output |-> FALSE]

\* the options other than --force given so far
OptionsGiven(a) ==
    Cardinality({o \in DOMAIN a \ {"force", "expected_guid"} : a[o]})
    + (IF a.expected_guid # <<>> THEN 1 ELSE 0)

Last == IF steps = <<>> THEN "start" ELSE steps[Len(steps)]

Init ==
    /\ file \in Inputs
    /\ args = DefaultArgs
    /\ steps = <<>>
    /\ status = "running"
    /\ capsule = NoCapsule
    /\ decoded = NoCapsule
    /\ checks = NoChecks
    /\ guidCheck = NoGuidCheck
    /\ stdout = <<>>
    /\ log = <<>>
    /\ extracted = NoFile
    /\ saved = NoFile

\* capsule = efi_capsule.parse_file(args.capsule), and its except clause
ParseFile ==
    /\ status = "running" /\ Last = "start"
    /\ steps' = Append(steps, "parse")
    /\ LET p == Parse(file) IN
       IF p.ok
       THEN /\ capsule' = p.v
            /\ decoded' = p.v
            /\ UNCHANGED <<status, log>>
       ELSE /\ status' = "exit1"
            /\ log' = Append(log, [level |-> "ERROR",
                                   what |-> "Could not parse capsule"])
            /\ UNCHANGED <<capsule, decoded>>
    /\ UNCHANGED <<file, args, checks, guidCheck, stdout, extracted, saved>>

\* if not sanity_check_capsule(capsule, args.force): sys.exit(1)
SanityCheckCapsule ==
    /\ status = "running" /\ Last = "parse"
    /\ \E force \in BOOLEAN :
         LET res == SanityCheck(capsule, force) IN
         /\ args' = [args EXCEPT !.force = force]
         /\ steps' = Append(steps, "sanity_check_capsule")
         /\ checks' = res
         /\ stdout' = stdout \o res.stdout
         /\ IF res.raised
            THEN /\ status' = "traceback"
                 /\ log' = log \o res.log
            ELSE IF ~res.r
            THEN /\ status' = "exit1"
                 /\ log' = log \o res.log
                           \o <<[level |-> "ERROR",
                                 what |-> "Invalid capsule; exiting"]>>
            ELSE /\ log' = log \o res.log
                 /\ UNCHANGED status
    /\ UNCHANGED <<file, capsule, decoded, guidCheck, extracted, saved>>

\* if not check_capsule_guid(...): sys.exit(1)
CheckGuid ==
    /\ status = "running" /\ Last = "sanity_check_capsule"
    /\ \E tool \in ToolAnswers, print_guid \in BOOLEAN,
          exp_guid \in ExpectedGuids \cup {<<>>} :
         LET a == [args EXCEPT !.print_guid = print_guid,
                               !.expected_guid = exp_guid]
             res == CheckCapsuleGuid(capsule, tool, exp_guid, args.force,
                                     print_guid)
         IN  /\ OptionsGiven(a) <= MaxOptions
             /\ args' = a
             /\ steps' = Append(steps, "check_capsule_guid")
             /\ guidCheck' = res
             /\ stdout' = stdout \o res.stdout
             /\ IF res.outcome = "raise"
                THEN /\ status' = "traceback"
                     /\ log' = log \o res.log
                ELSE IF res.outcome = "exit"
                THEN /\ status' = "exit1"
                     /\ log' = log \o res.log
                ELSE IF ~res.r
                THEN /\ status' = "exit1"
                     /\ log' = log \o res.log
                               \o <<[level |-> "ERROR",
                                     what |-> "Bad capsule GUID; exiting"]>>
                ELSE /\ log' = log \o res.log
                     /\ UNCHANGED status
    /\ UNCHANGED <<file, capsule, decoded, checks, extracted, saved>>

\* Before when the option blocks can be taken in any order, each once
Before_AnyOrder(o) ==
    /\ status = "running"
    /\ Len(steps) >= 3
    /\ \A i \in 1..Len(steps) : steps[i] # o
    /\ OptionsGiven(args) < MaxOptions

\* the script has gone past the statement of option o without taking it
Before(o) ==
    LET order == <<"check_capsule_guid", "de_authenticate", "tamper",
                   "dump", "extract", "output">>
        pos(x) == CHOOSE i \in 1..Len(order) : order[i] = x
    IN  /\ status = "running"
        /\ Last \in {order[i] : i \in 1..Len(order)}
        /\ pos(Last) < pos(o)
        /\ OptionsGiven(args) < MaxOptions

\* if args.de_authenticate: de_authenticate(capsule)
DeAuthenticateStep ==
    /\ Before("de_authenticate")
    /\ args' = [args EXCEPT !.de_authenticate = TRUE]
    /\ steps' = Append(steps, "de_authenticate")
    /\ LET res == DeAuthenticate(capsule) IN
       /\ capsule' = res.v
       /\ status' = CASE res.outcome = "return" -> status
                      [] res.outcome = "exit" -> "exit1"
                      [] res.outcome = "raise" -> "traceback"
       /\ log' = log \o <<[level |-> "INFO",
                           what |-> "De-authenticating capsule"]>>
                 \o (IF res.outcome = "exit"
                     THEN <<[level |-> "ERROR",
                             what |-> "obsolete version not supported"]>>
                     ELSE <<>>)
    /\ UNCHANGED <<file, decoded, checks, guidCheck, stdout, extracted,
                   saved>>

\* TamperStep when random.randint(0, -1) returns without flipping a bit
TamperStep_SkipsEmptyImage ==
    /\ Before("tamper")
    /\ args' = [args EXCEPT !.tamper = TRUE]
    /\ steps' = Append(steps, "tamper")
    /\ log' = Append(log, [level |-> "INFO",
                           what |-> "Tampering with capsule firmware image"])
    /\ LET s == Len(Bui(capsule).FirmwareImage) IN
       IF s = 0
       THEN UNCHANGED <<capsule, status>>
       ELSE /\ \E n \in 0..(s - 1), b \in 0..7 :
                 capsule' = Tamper(capsule, n, b)
            /\ UNCHANGED status
    /\ UNCHANGED <<file, decoded, checks, guidCheck, stdout, extracted,
                   saved>>

\* if args.tamper: tamper(capsule); random.randint(0, s - 1) raises
\* ValueError when s is 0
TamperStep ==
    /\ Before("tamper")
    /\ args' = [args EXCEPT !.tamper = TRUE]
    /\ steps' = Append(steps, "tamper")
    /\ log' = Append(log, [level |-> "INFO",
                           what |-> "Tampering with capsule firmware image"])
    /\ LET s == Len(Bui(capsule).FirmwareImage) IN
       IF s = 0
       THEN /\ status' = "traceback"
            /\ UNCHANGED capsule
       ELSE /\ \E n \in 0..(s - 1), b \in 0..7 :
                 capsule' = Tamper(capsule, n, b)
            /\ UNCHANGED status
    /\ UNCHANGED <<file, decoded, checks, guidCheck, stdout, extracted,
                   saved>>

\* if args.dump: print(capsule)
DumpStep ==
    /\ Before("dump")
    /\ args' = [args EXCEPT !.dump = TRUE]
    /\ steps' = Append(steps, "dump")
    /\ stdout' = Append(stdout, [line |-> "dump", capsule |-> capsule])
    /\ UNCHANGED <<file, status, capsule, decoded, checks, guidCheck, log,
                   extracted, saved>>

\* ExtractStep when extraction is refused for a capsule that failed a
\* validation rule
ExtractStep_Gated ==
    /\ Before("extract")
    /\ \A k \in 1..NumChecks : TryBody(k, capsule) = "debug"
    /\ args' = [args EXCEPT !.extract = TRUE]
    /\ steps' = Append(steps, "extract")
    /\ extracted' = [written |-> TRUE, complete |-> TRUE,
                     bytes |-> ExtractImage(capsule)]
    /\ log' = Append(log, [level |-> "INFO", what |-> "Extracting image"])
    /\ UNCHANGED <<file, status, capsule, decoded, checks, guidCheck,
                   stdout, saved>>

\* if args.extract: extract_image(capsule, args.extract)
ExtractStep ==
    /\ Before("extract")
    /\ args' = [args EXCEPT !.extract = TRUE]
    /\ steps' = Append(steps, "extract")
    /\ extracted' = [written |-> TRUE, complete |-> TRUE,
                     bytes |-> ExtractImage(capsule)]
    /\ log' = Append(log, [level |-> "INFO", what |-> "Extracting image"])
    /\ UNCHANGED <<file, status, capsule, decoded, checks, guidCheck,
                   stdout, saved>>

\* if args.output: efi_capsule.build_file(capsule, args.output); the file
\* is opened before the build starts, and a build error leaves in it what
\* was written before the error
SaveStep ==
    /\ Before("output")
    /\ args' = [args EXCEPT !.output = TRUE]
    /\ steps' = Append(steps, "output")
    /\ log' = Append(log, [level |-> "INFO", what |-> "Saving"])
    /\ LET res == Build(capsule) IN
       /\ saved' = [written |-> TRUE, complete |-> res.ok,
                    bytes |-> res.bytes]
       /\ status' = IF res.ok THEN status ELSE "traceback"
    /\ UNCHANGED <<file, capsule, decoded, checks, guidCheck, stdout,
                   extracted>>

\* the end of the script: the options not read so far were not given
Finish ==
    /\ status = "running"
    /\ Last \in {"check_capsule_guid", "de_authenticate", "tamper", "dump",
                 "extract", "output"}
    /\ status' = "exit0"
    /\ UNCHANGED <<file, args, steps, capsule, decoded, checks, guidCheck,
                   stdout, log, extracted, saved>>

Next ==
    \/ ParseFile
    \/ SanityCheckCapsule
    \/ CheckGuid
    \/ DeAuthenticateStep
    \/ TamperStep
    \/ DumpStep
    \/ ExtractStep
    \/ SaveStep
    \/ Finish

Spec == Init /\ [][Next]_vars

---------------------------------------------------------------------------
(* guid-tool.py, the script check_capsule_guid runs by default.  Run as    *)
(* its own process it has arguments, a database file, a position, an exit  *)
(* status, a standard output and a log; the variables of the capsule       *)
(* pipeline that it does not have keep their initial values.               *)

\* "12345678-1234-2678-9234-56789abcdef0", a GUID of UUID version 2
GuidStrVersion2 == [GuidStrA EXCEPT ![15] = 50]

\* the values of the positional argument guid
ToolGuids ==
    {GuidStrA, GuidStrB, GuidStrZeroes, GuidStrNewline, GuidStrVersion2,
     GuidStrHello}

\* what yaml.load returns for the database file: None for an empty file,
\* or a mapping with or without the key guid-tool-database and with its
\* list known-guids
NoDb == [none |-> TRUE, marker |-> FALSE, known |-> <<>>]

Db(known) == [none |-> FALSE, marker |-> TRUE, known |-> known]

DbFiles ==
    {NoDb,
     Db(<<>>),
     Db(<<[guid |-> GuidStrB, description |-> "Image B"],
          [guid |-> GuidStrA, description |-> "Image A"]>>),
     Db(<<[guid |-> GuidStrA, description |-> "Image A"],
          [guid |-> GuidStrB, description |-> "Image A"]>>),
     Db(<<[guid |-> GuidStrA, description |-> "Image A"],
          [guid |-> GuidStrA, description |-> "Image A again"]>>),
     Db(<<[guid |-> GuidStrHello, description |-> "Not a GUID"]>>),
     [Db(<<[guid |-> GuidStrA, description |-> "Image A"]>>)
         EXCEPT !.marker = FALSE]}

\* Guid.__init__(self, x) called with positional argument x and the
\* keyword arguments keywords; it has no parameter besides x, so any
\* keyword argument is a TypeError
GuidCall(x, keywords) ==
    IF keywords # {} THEN [ok |-> FALSE, b |-> <<>>]
    ELSE GuidFromStr(x)

\* validate_guids_db: TRUE when it returns, FALSE when the assert fails or
\* it raises for a duplicate description or a duplicate guid string
ValidateGuidsDb(db) ==
    /\ db.marker
    /\ \A i, j \in 1..Len(db.known) :
          i < j => /\ db.known[i].description # db.known[j].description
                   /\ db.known[i].guid # db.known[j].guid

\* load_guids_db: the database with a _Guid in every entry, or an
\* exception of validate_guids_db or of guid.Guid
LoadGuidsDb(y) ==
    LET db == IF y.none THEN Db(<<>>) ELSE y IN
    IF ~ValidateGuidsDb(db) THEN [ok |-> FALSE, known |-> <<>>]
    ELSE IF \E i \in 1..Len(db.known) : ~GuidCall(db.known[i].guid, {}).ok
    THEN [ok |-> FALSE, known |-> <<>>]
    ELSE [ok |-> TRUE,
          known |-> [i \in 1..Len(db.known) |->
                        [_Guid |-> GuidCall(db.known[i].guid, {}).b,
                         description |-> db.known[i].description]]]

\* lookup_guid: the line it prints
LookupGuid(g, db) ==
    LET found == {i \in 1..Len(db.known) : db.known[i]._Guid = g} IN
    IF found = {} THEN "Unknown"
    ELSE db.known[CHOOSE i \in found : \A j \in found : i <= j].description

\* the script from the call of guid.Guid to its end, for the arguments a
\* and the database file y
GuidToolRun(a, y) ==
    LET g == GuidCall(a.guid, {"validate"})
        db == LoadGuidsDb(y)
    IN  IF ~g.ok
        THEN [status |-> "exit1", stdout |-> <<>>,
              log |-> <<[level |-> "ERROR", what |-> "Invalid GUID"]>>]
        ELSE IF a.details
        THEN [status |-> "exit0",
              stdout |-> <<[line |-> "details", guid |-> GuidStr(g.b)]>>,
              log |-> <<>>]
        ELSE IF a.print_c_define
        THEN [status |-> "exit0",
              stdout |-> <<[line |-> "c define", guid |-> GuidStr(g.b)]>>,
              log |-> <<>>]
        ELSE IF ~db.ok
        THEN [status |-> "traceback", stdout |-> <<>>, log |-> <<>>]
        ELSE [status |-> "exit0",
              stdout |-> <<[line |-> LookupGuid(g.b, db), guid |-> <<>>]>>,
              log |-> <<>>]

GuidToolInit ==
    /\ file \in DbFiles
    /\ args \in [guid : ToolGuids, validate : BOOLEAN, details : BOOLEAN,
                 print_c_define : BOOLEAN]
    /\ steps = <<>>
    /\ status = "running"
    /\ capsule = NoCapsule
    /\ decoded = NoCapsule
    /\ checks = NoChecks
    /\ guidCheck = NoGuidCheck
    /\ stdout = <<>>
    /\ log = <<>>
    /\ extracted = NoFile
    /\ saved = NoFile

\* __main__ of guid-tool.py
GuidToolMain ==
    /\ status = "running" /\ steps = <<>>
    /\ LET res == GuidToolRun(args, file) IN
       /\ steps' = <<"guid-tool">>
       /\ status' = res.status
       /\ stdout' = res.stdout
       /\ log' = res.log
    /\ UNCHANGED <<file, args, capsule, decoded, checks, guidCheck,
                   extracted, saved>>

GuidToolNext == GuidToolMain

GuidToolSpec == GuidToolInit /\ [][GuidToolNext]_vars

---------------------------------------------------------------------------
(* Properties *)

Range(q) == {q[i] : i \in 1..Len(q)}

Did(step) == step \in Range(steps)

Parsed == capsule # NoCapsule

Unmutated == ~Did("de_authenticate") /\ ~Did("tamper")

\* the first entry of the checks list that does not pass on c, 0 if none
FirstFailing(c) ==
    IF \A k \in 1..NumChecks : TryBody(k, c) = "debug" THEN 0
    ELSE CHOOSE k \in 1..NumChecks :
           /\ TryBody(k, c) # "debug"
           /\ \A j \in 1..(k - 1) : TryBody(j, c) = "debug"

\* C1: a decoded capsule that no mutator has touched encodes to exactly the
\* bytes of the input file, and the save step writes exactly those bytes
C1_RoundTrip ==
    (Parsed /\ Unmutated) =>
        /\ Build(capsule) = [ok |-> TRUE, bytes |-> file]
        /\ Did("output") =>
              saved = [written |-> TRUE, complete |-> TRUE, bytes |-> file]

\* C1 witness: an unmutated unauthenticated capsule with padding or
\* trailing bytes has been saved
C1_Witness ==
    /\ Did("output") /\ Unmutated /\ saved.complete
    /\ ~HasAuthentication(capsule)
    /\ capsule.RemainingBytes # <<>>

\* C1 witness for the other variant: an unmutated authenticated capsule
\* with padding has been saved
C1_WitnessPadding ==
    /\ Did("output") /\ Unmutated /\ saved.complete
    /\ HasAuthentication(capsule)
    /\ capsule.Padding # <<>>

\* a capsule object whose HeaderSize is 20; efi_capsule.parse rejects such
\* a file (the Padding count is negative), a caller can still pass the
\* object to sanity_check_capsule
WithHeaderSize20(c) == [c EXCEPT !.CapsuleHeader.HeaderSize = 20]

\* C2: without force, when entry k is the first entry that fails (returns
\* false or raises), exactly the entries 1..k are evaluated, in list
\* order, the function returns False and the script exits with status 1;
\* on a decoded capsule with a good CapsuleGuid whose HeaderSize is set to
\* 20 the function evaluates exactly the entries 1 and 2
C2_FailFast ==
    /\ (Did("sanity_check_capsule") /\ ~args.force) =>
          LET k == FirstFailing(decoded) IN
          k # 0 =>
              /\ checks.evaluated = [i \in 1..k |-> i]
              /\ ~checks.r
              /\ status = "exit1"
              /\ Last = "sanity_check_capsule"
    /\ (Last = "parse" /\ Parsed /\ CheckHolds(1, decoded)) =>
          LET res == SanityCheck(WithHeaderSize20(decoded), FALSE) IN
          res.evaluated = <<1, 2>> /\ ~res.r /\ ~res.raised

\* C2 witness: without force the loop stopped at entry 7
C2_Witness ==
    /\ Did("sanity_check_capsule") /\ ~args.force
    /\ FirstFailing(decoded) = 7
    /\ Len(checks.evaluated) = 7

\* C3: with force every one of the 19 entries is evaluated, every entry
\* that fails leaves a record (an ERROR record when its check returned
\* false, the DEBUG record of the except clause when it raised), and the
\* function returns True
C3_ForceMode ==
    (Did("sanity_check_capsule") /\ args.force) =>
        /\ checks.evaluated = [i \in 1..NumChecks |-> i]
        /\ checks.r
        /\ \A k \in 1..NumChecks :
              TryBody(k, decoded) # "debug" =>
                 \E i \in 1..Len(checks.log) :
                    /\ checks.log[i].entry = k
                    /\ checks.log[i].what = TryBody(k, decoded)
        /\ Last = "sanity_check_capsule" => status = "running"

\* C3 witness: under force a capsule with two failing entries, the first
\* one before entry 10, was checked to the end
C3_Witness ==
    /\ Did("sanity_check_capsule") /\ args.force
    /\ FirstFailing(decoded) \in 1..9
    /\ \E k \in 10..NumChecks : TryBody(k, decoded) = "error"
    /\ Len(checks.evaluated) = NumChecks

\* C4: an exception raised by a lambda of the checks list never leaves
\* sanity_check_capsule, with or without force: the entry counts as
\* failed and the loop goes on as for any other failure
C4_ExceptionCaught ==
    Did("sanity_check_capsule") =>
        /\ ~checks.raised
        /\ Last = "sanity_check_capsule" => status # "traceback"
        /\ \A i \in 1..Len(checks.evaluated) :
              TryBody(i, decoded) = "raise" =>
                 /\ checks.log[i] = [level |-> "DEBUG", entry |-> i,
                                     what |-> "raise"]
                 /\ checks.r = args.force
                 /\ ~\E j \in 1..Len(stdout) :
                       stdout[j].line
                       = "Valid authenticated capsule in FMP format"

\* C4 witness: reading FirmwareImageAuthentication raised on an
\* unauthenticated capsule and the check went on to the last entry
C4_Witness ==
    /\ Did("sanity_check_capsule")
    /\ ~HasAuthentication(decoded)
    /\ \E i \in 1..Len(checks.log) : checks.log[i].what = "raise"
    /\ Len(checks.evaluated) = NumChecks

\* the line sanity_check_capsule prints for a valid capsule
ValidLine == [line |-> "Valid authenticated capsule in FMP format"]

\* C5 as stated: on an image header of Version < 3 each of the entries
\* 12, 13 and 14 is treated as failing
C5_AsStated ==
    (Did("sanity_check_capsule") /\ Fmcih(decoded).Version < 3
       /\ Len(checks.evaluated) = NumChecks) =>
        \A k \in 12..14 : checks.log[k].what # "debug"

\* C5 as amended: on an image header of Version < 3 the entries 12, 13
\* and 14 do not read ImageCapsuleSupport and each of them passes (the
\* capsule fails entry 8 instead, so it is never reported valid); on
\* Version >= 3 entry 14 passes exactly when the AUTHENTICATION bit of
\* ImageCapsuleSupport is set
C5_SupportRules ==
    Did("sanity_check_capsule") =>
        /\ Fmcih(decoded).Version < 3 =>
              /\ \A k \in 12..14 :
                    k <= Len(checks.evaluated) =>
                       checks.log[k] = [level |-> "DEBUG", entry |-> k,
                                        what |-> "debug"]
              /\ Len(checks.evaluated) >= 8 => checks.log[8].what = "error"
              /\ ValidLine \notin Range(stdout)
        /\ Fmcih(decoded).Version >= 3 /\ Len(checks.evaluated) >= 14 =>
              (checks.log[14].what = "debug"
               <=> Fmcih(decoded).ImageCapsuleSupport[1] % 2 = 1)

\* C5 witness: under force a Version 2 capsule was checked to the end
C5_Witness ==
    /\ Did("sanity_check_capsule") /\ args.force
    /\ Fmcih(decoded).Version = 2
    /\ Len(checks.evaluated) = NumChecks
    /\ checks.log[14].what = "debug"

\* the Flags values without unknown bits
KnownFlagsValues ==
    {p + q + i : p \in {0, 65536}, q \in {0, 131072}, i \in {0, 262144}}

\* rule k of the list as the specification states it; a rule about an
\* absent field does not hold
RuleAsSpecified(k, c) ==
    LET h == c.CapsuleHeader
        ih == c.CapsuleBody.Payload1.FirmwareManagementCapsuleImageHeader
        bui == c.CapsuleBody.Payload1.BinaryUpdateImage
        ics == ih.ImageCapsuleSupport
        hasAuth == "FirmwareImageAuthentication" \in DOMAIN bui
        info == bui.FirmwareImageAuthentication.AuthInfo
    IN
    CASE k = 1 -> efi_guid_build(h.CapsuleGuid)
                  = <<237, 213, 203, 109, 45, 232, 68, 76,
                      189, 161, 113, 148, 25, 154, 217, 42>>
      [] k = 2 -> h.HeaderSize >= 28
      [] k = 3 -> h.Flags \in KnownFlagsValues
      [] k = 4 -> h.CapsuleImageSize >= 28
      [] k = 5 -> c.CapsuleBody.FirmwareManagementCapsuleHeader.Version = 1
      [] k = 6 -> c.CapsuleBody.FirmwareManagementCapsuleHeader
                   .EmbeddedDriverCount = 0
      [] k = 7 -> c.CapsuleBody.FirmwareManagementCapsuleHeader
                   .PayloadItemCount = 1
      [] k = 8 -> ih.Version = 3
      [] k = 9 -> \A i \in 1..3 : ih.reserved_bytes[i] = 0
      [] k = 10 -> ih.UpdateImageSize > 32
      [] k = 11 -> ih.UpdateVendorCodeSize = 0
      [] k = 12 -> ics # <<>> /\ ics[1] \in 0..3
      [] k = 13 -> ics # <<>> /\ (ics[1] \div 2) % 2 = 0
      [] k = 14 -> ics # <<>> /\ ics[1] % 2 = 1
      [] k = 15 -> hasAuth /\ info.Hdr.dwLength >= 9
      [] k = 16 -> hasAuth /\ info.Hdr.wRevision = 512
      [] k = 17 -> hasAuth /\ info.Hdr.wCertificateType = 3825
      [] k = 18 -> hasAuth /\ efi_guid_build(info.CertType)
                              = <<157, 210, 175, 74, 223, 104, 238, 73,
                                  138, 169, 52, 125, 55, 86, 101, 167>>
      [] k = 19 -> c.RemainingBytes = <<>>

\* C6: without force sanity_check_capsule returns True, and prints the
\* line 'Valid authenticated capsule in FMP format', if and only if all
\* 19 rules of the list hold; a capsule with PayloadItemCount = 2 is
\* rejected at rule 7 at the latest
C6_ValidIffAllRules ==
    (Did("sanity_check_capsule") /\ ~args.force) =>
        LET all == \A k \in 1..NumChecks : RuleAsSpecified(k, decoded) IN
        /\ checks.r <=> all
        /\ (ValidLine \in Range(stdout)) <=> all
        /\ status = (IF all THEN "running" ELSE "exit1")
              \/ Last # "sanity_check_capsule"
        /\ Fmch(decoded).PayloadItemCount = 2 =>
              /\ ~checks.r
              /\ Len(checks.evaluated) <= 7
              /\ Len(checks.evaluated) = 7 => checks.log[7].what = "error"

\* C6 witness: a capsule that satisfies the 19 rules was accepted without
\* force and the line was printed
C6_Witness ==
    /\ Did("sanity_check_capsule") /\ ~args.force
    /\ checks.r
    /\ ValidLine \in Range(stdout)

\* C6 witness for the example: PayloadItemCount = 2 stopped the loop at
\* rule 7
C6_WitnessTwoPayloads ==
    /\ Did("sanity_check_capsule") /\ ~args.force
    /\ Fmch(decoded).PayloadItemCount = 2
    /\ Len(checks.evaluated) = 7

\* de_authenticate was called on an authenticated capsule with an image
\* header of Version >= 3
DeAuthenticated ==
    /\ Did("de_authenticate")
    /\ HasAuthentication(decoded)
    /\ Fmcih(decoded).Version >= 3

\* dwLength + 8 of the decoded capsule
OldAuthenticationSize ==
    Bui(decoded).FirmwareImageAuthentication.AuthInfo.Hdr.dwLength + 8

\* all the effects of de_authenticate, from the decoded capsule old to new
AllEffects(old, new) ==
    LET sz == Bui(old).FirmwareImageAuthentication.AuthInfo.Hdr.dwLength + 8
        oldIcs == Fmcih(old).ImageCapsuleSupport[1]
    IN
    /\ new.CapsuleHeader.CapsuleImageSize
       = old.CapsuleHeader.CapsuleImageSize - sz
    /\ Fmcih(new).UpdateImageSize = Fmcih(old).UpdateImageSize - sz
    /\ Fmcih(new).ImageCapsuleSupport
       = <<IF oldIcs % 2 = 1 THEN oldIcs - 1 ELSE oldIcs>>
    /\ "FirmwareImageAuthentication" \notin DOMAIN Bui(new)

\* C7: after de_authenticate on an authenticated capsule of Version >= 3
\* the call has returned, CapsuleImageSize and UpdateImageSize are each
\* dwLength + 8 smaller, the AUTHENTICATION bit is cleared, the other
\* bits of ImageCapsuleSupport are kept and FirmwareImageAuthentication
\* is gone
C7_SizeLaw ==
    DeAuthenticated =>
        /\ AllEffects(decoded, capsule)
        /\ Last = "de_authenticate" => status \in {"running", "exit0"}

\* C7 witness: de_authenticate returned on a capsule whose
\* ImageCapsuleSupport had the DEPENDENCY bit beside the AUTHENTICATION
\* bit, and on a capsule with a dwLength other than 24
C7_Witness ==
    /\ DeAuthenticated /\ Last = "de_authenticate"
    /\ Fmcih(decoded).ImageCapsuleSupport = <<3>>
    /\ Fmcih(capsule).ImageCapsuleSupport = <<2>>

\* C8: on an image header of Version < 3 de_authenticate ends the run
\* with exit status 1, with or without force, and no field of the
\* capsule has changed
C8_ObsoleteVersion ==
    (Did("de_authenticate") /\ Fmcih(decoded).Version < 3) =>
        /\ Last = "de_authenticate"
        /\ status = "exit1"
        /\ capsule = decoded
        /\ log[Len(log)] = [level |-> "ERROR",
                            what |-> "obsolete version not supported"]

\* C8 witness: a Version 2 capsule, let through by force, reached
\* de_authenticate
C8_Witness ==
    /\ Did("de_authenticate") /\ args.force
    /\ Fmcih(decoded).Version = 2
    /\ status = "exit1"

\* C9: de_authenticate either performs all of its effects or leaves the
\* capsule exactly as it was; this holds for the call the run makes and
\* for a call on any capsule the run holds, a capsule that was already
\* de-authenticated included
C9_Atomic ==
    /\ (Did("de_authenticate") /\ ~Did("tamper")) =>
          \/ capsule = decoded /\ status \in {"exit1", "traceback"}
          \/ HasAuthentication(decoded) /\ AllEffects(decoded, capsule)
    /\ Parsed =>
          LET res == DeAuthenticate(capsule) IN
          \/ res.outcome # "return" /\ res.v = capsule
          \/ /\ res.outcome = "return"
             /\ HasAuthentication(capsule)
             /\ AllEffects(capsule, res.v)

\* C9 witness: de_authenticate failed on a capsule of Version >= 3 that
\* was decoded unauthenticated, and a second call on a de-authenticated
\* capsule fails too
C9_Witness ==
    /\ Last = "de_authenticate" /\ status = "traceback"
    /\ Fmcih(decoded).Version >= 3 /\ ~HasAuthentication(decoded)
    /\ capsule = decoded

\* C9 witness for the second call
C9_WitnessSecondCall ==
    /\ DeAuthenticated /\ Last = "de_authenticate" /\ status = "running"
    /\ DeAuthenticate(capsule).outcome = "raise"

\* the offset of the image header in the file
ImageHeaderOffset ==
    decoded.CapsuleHeader.HeaderSize + 8
    + 8 * Len(Fmch(decoded).ItemOffsetList)

\* the file without its authentication block and with the three fields
\* CapsuleImageSize, UpdateImageSize and ImageCapsuleSupport rewritten
FileWithoutAuthentication ==
    LET o == ImageHeaderOffset
        sz == OldAuthenticationSize
    IN  Slice(file, 0, 24)
        \o LEBytes(decoded.CapsuleHeader.CapsuleImageSize - sz, 4)
        \o Slice(file, 28, o + 24 - 28)
        \o LEBytes(Fmcih(decoded).UpdateImageSize - sz, 4)
        \o Slice(file, o + 28, 12)
        \o LEBytes(Fmcih(decoded).ImageCapsuleSupport[1] - 1, 8)
        \o Slice(file, o + 48 + sz, Len(file) - (o + 48 + sz))

\* the encoding of the de-authenticated capsule is the file without its
\* authentication block, and decodes to the same FirmwareImage
EncodesWithoutAuthentication ==
    LET out == Build(capsule) IN
    /\ out.ok
    /\ decoded.CapsuleHeader.CapsuleImageSize >= OldAuthenticationSize
    /\ out.bytes = FileWithoutAuthentication
    /\ Len(out.bytes) = Len(file) - OldAuthenticationSize
    /\ LET again == Parse(out.bytes) IN
       /\ again.ok
       /\ Bui(again.v).FirmwareImage = Bui(decoded).FirmwareImage
       /\ ~HasAuthentication(again.v)

\* C10: for an authenticated capsule of Version >= 3 decoded from the
\* file, the encoding after de_authenticate is the file with the
\* (8 + dwLength)-byte authentication block removed and only
\* CapsuleImageSize, UpdateImageSize and ImageCapsuleSupport rewritten,
\* and decoding it again yields the same FirmwareImage and no
\* authentication block
C10_EncodeAfterDeAuthenticate ==
    (DeAuthenticated /\ ~Did("tamper")) => EncodesWithoutAuthentication

\* bit i of byte x
Bit(x, i) == (x \div (2 ^ i)) % 2

\* the byte strings p and q have the same length and differ in exactly one
\* bit
DifferInOneBit(p, q) ==
    /\ Len(p) = Len(q)
    /\ \E n \in 1..Len(p), b \in 0..7 :
          /\ Bit(p[n], b) # Bit(q[n], b)
          /\ \A i \in 0..7 : i # b => Bit(p[n], i) = Bit(q[n], i)
          /\ \A m \in 1..Len(p) : m # n => p[m] = q[m]

\* the capsule new is the capsule old with one bit of its FirmwareImage
\* inverted and nothing else changed; their encodings, where the capsule
\* can be encoded at all, differ in exactly one bit
TamperedOneBit(old, new) ==
    /\ DifferInOneBit(Bui(old).FirmwareImage, Bui(new).FirmwareImage)
    /\ \A i \in 1..Len(Bui(new).FirmwareImage) :
          Bui(new).FirmwareImage[i] \in 0..255
    /\ [new EXCEPT !.CapsuleBody.Payload1.BinaryUpdateImage.FirmwareImage =
                       Bui(old).FirmwareImage] = old
    /\ Build(new).ok = Build(old).ok
    /\ Build(old).ok => DifferInOneBit(Build(old).bytes, Build(new).bytes)

\* C11: a tamper step on a capsule with a non-empty FirmwareImage keeps
\* the length of the FirmwareImage, inverts exactly one bit of it and
\* changes nothing else; the capsule's encoding before and after differs
\* in exactly that one bit (a capsule that cannot be encoded before the
\* step cannot be encoded after it either)
C11_Tamper ==
    [][(steps' = Append(steps, "tamper")
          /\ Bui(capsule).FirmwareImage # <<>>)
       => /\ TamperedOneBit(capsule, capsule')
          /\ status' = status]_vars

\* C11 witness: tamper has run on an unmodified capsule with a non-empty
\* FirmwareImage, and the capsule encodes to the input file with one bit
\* inverted
C11_Witness ==
    /\ Last = "tamper" /\ ~Did("de_authenticate")
    /\ Bui(decoded).FirmwareImage # <<>>
    /\ capsule # decoded
    /\ DifferInOneBit(file, Build(capsule).bytes)

\* the offset of the FirmwareImage in the file, from the layout of the
\* decoded capsule
FirmwareImageOffset ==
    ImageHeaderOffset + 32
    + (IF Fmcih(decoded).Version >= 2 THEN 8 ELSE 0)
    + (IF Fmcih(decoded).Version >= 3 THEN 8 ELSE 0)
    + (IF HasAuthentication(decoded) THEN OldAuthenticationSize ELSE 0)

\* the number of FirmwareImage bytes the size fields of capsule c announce
AnnouncedImageSize(c) ==
    IF HasAuthentication(c)
    THEN Fmcih(c).UpdateImageSize - 8 - AuthHdr(c).dwLength
    ELSE Fmcih(c).UpdateImageSize

\* C12: extract_image writes exactly the FirmwareImage bytes: for an
\* authenticated capsule UpdateImageSize - 8 - dwLength bytes, for an
\* unauthenticated one UpdateImageSize bytes, and they are the bytes of
\* that region of the input file (with the one bit inverted when tamper
\* ran before)
C12_Extraction ==
    Did("extract") =>
        LET region == Slice(file, FirmwareImageOffset,
                            AnnouncedImageSize(decoded))
        IN
        /\ extracted = [written |-> TRUE, complete |-> TRUE,
                        bytes |-> Bui(capsule).FirmwareImage]
        /\ Len(extracted.bytes) = AnnouncedImageSize(capsule)
        /\ Len(region) = AnnouncedImageSize(decoded)
        /\ IF Did("tamper")
           THEN DifferInOneBit(region, extracted.bytes)
           ELSE extracted.bytes = region

\* C12 witness: the image of an authenticated capsule with a dwLength of
\* 26 was extracted
C12_Witness ==
    /\ Did("extract") /\ Unmutated
    /\ HasAuthentication(capsule)
    /\ AuthHdr(capsule).dwLength = 26
    /\ Len(extracted.bytes) = 1
    /\ Fmcih(capsule).UpdateImageSize = 35

\* C12 witness for the other variant: the image of an unauthenticated
\* capsule was extracted
C12_WitnessUnauthenticated ==
    /\ Did("extract") /\ Unmutated
    /\ ~HasAuthentication(capsule)
    /\ Len(extracted.bytes) = Fmcih(capsule).UpdateImageSize
    /\ extracted.bytes # <<>>

\* the script is running and has not gone past the statement
\* "if args.extract", with room for one more option on the command line
AtOrBeforeExtract ==
    /\ status = "running"
    /\ Last \in {"check_capsule_guid", "de_authenticate", "tamper", "dump"}
    /\ OptionsGiven(args) < MaxOptions

\* some validation rule failed on the decoded capsule
FailedValidation == FirstFailing(decoded) # 0

\* C13: extraction is not gated by validation: whenever the script is
\* running before the extract statement, whatever validation found, the
\* extract step can be taken; it writes the FirmwareImage, changes no
\* capsule field and leaves the script running towards the save step
C13_ExtractionNotGated ==
    /\ [](AtOrBeforeExtract => ENABLED ExtractStep)
    /\ [][steps' = Append(steps, "extract")
          => /\ capsule' = capsule
             /\ status' = status
             /\ extracted'.written
             /\ extracted'.bytes = Bui(capsule).FirmwareImage]_vars

\* C13 witness: under force a capsule that failed validation has been
\* extracted and then saved
C13_Witness ==
    /\ args.force /\ FailedValidation
    /\ Did("extract") /\ Last = "output"
    /\ extracted.written /\ saved.complete
    /\ extracted.bytes = Bui(decoded).FirmwareImage

\* check_capsule_guid compared the capsule's UpdateImageTypeId with an
\* expected GUID that differs from it
GuidMismatch ==
    /\ Did("check_capsule_guid")
    /\ guidCheck.outcome = "return"
    /\ args.expected_guid # <<>>
    /\ GuidFromStr(args.expected_guid).b
       # efi_guid_build(Fmcih(decoded).UpdateImageTypeId)

\* C14: on a mismatch between the expected GUID and the capsule's
\* UpdateImageTypeId check_capsule_guid logs the mismatch, returns False
\* without force and True with force, and under force the script goes on
C14_GuidMismatchForce ==
    GuidMismatch =>
        /\ \E i \in 1..Len(guidCheck.log) :
              guidCheck.log[i].what = "while expecting"
        /\ guidCheck.r = args.force
        /\ args.force => status # "exit1"

\* C15: when the guid tool ends with a non-zero return code
\* check_capsule_guid ends the run with exit status 1, with or without
\* force; the tool was run once, and no mutation, dump, extraction or
\* save step follows
C15_BadGuidTool ==
    guidCheck.tool = "failed" =>
        /\ guidCheck.outcome = "exit"
        /\ status = "exit1"
        /\ Last = "check_capsule_guid"
        /\ Len(SelectSeq(steps, LAMBDA x : x = "check_capsule_guid")) = 1
        /\ capsule = decoded
        /\ extracted = NoFile /\ saved = NoFile
        /\ log[Len(log)] = [level |-> "ERROR", what |-> "Bad guid tool"]

\* C15 witness: under force, on a capsule that failed validation, the guid
\* tool failed and the run ended
C15_Witness ==
    /\ guidCheck.tool = "failed"
    /\ args.force /\ FailedValidation
    /\ status = "exit1"

\* the run has ended
Ended == status # "running"

\* a fatal collaborator or mutation error: the guid tool failed, guid.Guid
\* raised, or a mutation or output step ended the run
FatalError ==
    \/ guidCheck.tool = "failed"
    \/ guidCheck.outcome = "raise"
    \/ Last \in {"de_authenticate", "tamper", "output"}
       /\ status \in {"exit1", "traceback"}

\* decode succeeded, validation passed or was forced, the GUID check passed
\* or was forced, and no fatal error occurred
OverallSuccess ==
    /\ Parsed
    /\ Did("sanity_check_capsule") /\ (~FailedValidation \/ args.force)
    /\ Did("check_capsule_guid") /\ (~GuidMismatch \/ args.force)
    /\ ~FatalError

\* C16: a run that has ended has status 0 exactly when decode succeeded,
\* validation passed or was forced, the GUID check passed or was forced and
\* no fatal error occurred; in every other case the status is not 0 and no
\* file (extract, save) has been written
C16_ExitStatus ==
    Ended =>
        /\ status = "exit0" <=> OverallSuccess
        /\ status # "exit0" => ~extracted.written /\ ~saved.written

\* the buffer b holds all the fixed fields and all the derived regions of
\* a capsule, and no derived length underflows: HeaderSize >= 28 for
\* Padding, dwLength >= 24 for CertData, UpdateImageSize >= 8 + dwLength
\* for the authenticated FirmwareImage
WellFormedBuffer(b) ==
    /\ Len(b) >= 28
    /\ LET hs == LEInt(Slice(b, 16, 4)) IN
       /\ hs >= 28
       /\ Len(b) >= hs + 8
       /\ LET n == LEInt(Slice(b, hs + 4, 2)) + LEInt(Slice(b, hs + 6, 2))
              o == hs + 8 + 8 * n
          IN
          /\ Len(b) >= o + 32
          /\ LET ver == LEInt(Slice(b, o, 4))
                 uis == LEInt(Slice(b, o + 24, 4))
                 hl == 32 + (IF ver >= 2 THEN 8 ELSE 0)
                          + (IF ver >= 3 THEN 8 ELSE 0)
             IN
             /\ Len(b) >= o + hl
             /\ Len(b) >= o + hl + uis
             /\ (ver < 3 \/ b[o + 41] % 2 = 1) =>
                   /\ Len(b) >= o + hl + 32
                   /\ LET dw == LEInt(Slice(b, o + hl + 8, 4)) IN
                      dw >= 24 /\ uis >= 8 + dw

\* C17: decode fails atomically: when a derived length underflows or the
\* buffer is too short for the fixed fields and the derived regions,
\* efi_capsule.parse raises, no capsule value exists, and the script exits
\* with status 1 before validation; every other buffer decodes
C17_DecodeAtomic ==
    Did("parse") =>
        /\ Parsed <=> WellFormedBuffer(file)
        /\ ~WellFormedBuffer(file) =>
              /\ capsule = NoCapsule /\ decoded = NoCapsule
              /\ status = "exit1"
              /\ steps = <<"parse">>
              /\ checks = NoChecks
              /\ ~extracted.written /\ ~saved.written

\* C17 witness: a file whose HeaderSize is 20 was rejected
C17_Witness ==
    /\ Did("parse") /\ ~Parsed
    /\ LEInt(Slice(file, 16, 4)) = 20
    /\ status = "exit1"

\* C17 witness for CertData: a file whose dwLength is 8 was rejected
C17_WitnessCertData ==
    /\ Did("parse") /\ ~Parsed
    /\ Len(file) >= 104
    /\ LEInt(Slice(file, 16, 4)) = 28
    /\ LEInt(Slice(file, 100, 4)) = 8

\* C17 witness for the FirmwareImage: a file whose UpdateImageSize is 7
\* was rejected
C17_WitnessFirmwareImage ==
    /\ Did("parse") /\ ~Parsed
    /\ Len(file) >= 104
    /\ LEInt(Slice(file, 16, 4)) = 28
    /\ LEInt(Slice(file, 68, 4)) = 7
    /\ LEInt(Slice(file, 100, 4)) = 24

\* C17 witness for a short buffer: a file that ends inside the fixed
\* fields of the authentication block was rejected
C17_WitnessShort ==
    /\ Did("parse") /\ ~Parsed
    /\ Len(file) = 108
    /\ LEInt(Slice(file, 16, 4)) = 28
    /\ LEInt(Slice(file, 100, 4)) = 24

\* the variant an image header f selects: Authenticated when Version < 3
\* or the AUTHENTICATION bit of ImageCapsuleSupport is set
SelectsAuthenticated(f) ==
    \/ f.Version < 3
    \/ f.ImageCapsuleSupport # <<>> /\ f.ImageCapsuleSupport[1] % 2 = 1

\* capsule c has the shape its image header selects, with a FirmwareImage
\* of the announced size
HasSelectedShape(c) ==
    /\ HasAuthentication(c) <=> SelectsAuthenticated(Fmcih(c))
    /\ DOMAIN Bui(c) = (IF SelectsAuthenticated(Fmcih(c))
                        THEN {"FirmwareImageAuthentication", "FirmwareImage"}
                        ELSE {"FirmwareImage"})
    /\ Len(Bui(c).FirmwareImage) = AnnouncedImageSize(c)

\* the length of the encoding of c from the variant its current image
\* header selects
SelectedLength(c) ==
    c.CapsuleHeader.HeaderSize + 8 + 8 * Len(Fmch(c).ItemOffsetList)
    + 32 + (IF Fmcih(c).Version >= 2 THEN 8 ELSE 0)
    + (IF Fmcih(c).Version >= 3 THEN 8 ELSE 0)
    + (IF SelectsAuthenticated(Fmcih(c))
       THEN 8 + AuthHdr(c).dwLength ELSE 0)
    + Len(Bui(c).FirmwareImage) + Len(c.RemainingBytes)

\* C18: a decoded capsule has the Authenticated shape, with the
\* authentication block before a FirmwareImage of UpdateImageSize - 8 -
\* dwLength bytes, exactly when Version < 3 or the AUTHENTICATION bit is
\* set, and otherwise the Unauthenticated shape with a FirmwareImage of
\* UpdateImageSize bytes; encode selects the variant from the current
\* field values in the same way (checked where the capsule is assigned:
\* after decode and after each mutation)
C18_VariantSelection ==
    Parsed =>
        /\ HasSelectedShape(decoded)
        /\ Bui(decoded).FirmwareImage
           = Slice(file, FirmwareImageOffset, AnnouncedImageSize(decoded))
        /\ LET out == Build(capsule) IN
           Last \in {"parse", "de_authenticate", "tamper"} /\ out.ok =>
              /\ HasSelectedShape(capsule)
              /\ Len(out.bytes) = SelectedLength(capsule)
              /\ Parse(out.bytes) = [ok |-> TRUE, v |-> capsule]

\* C18 witness: a Version 2 capsule, which has no ImageCapsuleSupport,
\* was decoded in the Authenticated shape
C18_Witness ==
    /\ Parsed
    /\ Fmcih(decoded).Version = 2
    /\ HasAuthentication(decoded)
    /\ Bui(decoded).FirmwareImage # <<>>

\* C18 witness for encode: after de_authenticate the capsule encodes in
\* the Unauthenticated shape
C18_WitnessEncode ==
    /\ DeAuthenticated /\ Last = "output" /\ saved.complete
    /\ ~HasAuthentication(capsule)
    /\ Len(saved.bytes) = Len(file) - OldAuthenticationSize

\* C19: in every decoded capsule UpdateHardwareInstance is present, read
\* from 8 bytes of the file, exactly when Version >= 2, and
\* ImageCapsuleSupport is present, read from the next 8 bytes, exactly when
\* Version >= 3; an absent field is the empty value and takes no bytes:
\* the BinaryUpdateImage starts right after the fields that are present,
\* and a file laid out without the bytes of an absent field is decoded
C19_OptionalFields ==
    /\ Did("parse") /\ WellFormedBuffer(file) => Parsed
    /\ Parsed =>
           LET f == Fmcih(decoded)
               o == ImageHeaderOffset
               uhi == IF f.Version >= 2 THEN 8 ELSE 0
               ics == IF f.Version >= 3 THEN 8 ELSE 0
           IN
           /\ f.UpdateHardwareInstance
              = (IF f.Version >= 2 THEN <<LEInt(Slice(file, o + 32, 8))>>
                 ELSE <<>>)
           /\ f.ImageCapsuleSupport
              = (IF f.Version >= 3 THEN <<LEInt(Slice(file, o + 32 + uhi, 8))>>
                 ELSE <<>>)
           /\ IF HasAuthentication(decoded)
              THEN /\ Bui(decoded).FirmwareImageAuthentication.MonotonicCount
                      = LEInt(Slice(file, o + 32 + uhi + ics, 8))
                   /\ AuthHdr(decoded).dwLength
                      = LEInt(Slice(file, o + 32 + uhi + ics + 8, 4))
              ELSE Bui(decoded).FirmwareImage
                   = Slice(file, o + 32 + uhi + ics, f.UpdateImageSize)

\* C19 witness: a Version 2 capsule was decoded with
\* UpdateHardwareInstance and without ImageCapsuleSupport
C19_Witness ==
    /\ Parsed
    /\ Fmcih(decoded).Version = 2
    /\ Fmcih(decoded).UpdateHardwareInstance = <<7>>
    /\ Fmcih(decoded).ImageCapsuleSupport = <<>>

\* C19 witness for Version 1: both fields are absent
C19_WitnessVersion1 ==
    /\ Parsed
    /\ Fmcih(decoded).Version = 1
    /\ Fmcih(decoded).UpdateHardwareInstance = <<>>
    /\ Fmcih(decoded).ImageCapsuleSupport = <<>>
    /\ Bui(decoded).FirmwareImageAuthentication.MonotonicCount = 265

\* str.lower() on a string of character codes
Lower(s) == [i \in 1..Len(s) |-> IF s[i] \in 65..90 THEN s[i] + 32 ELSE s[i]]

\* the expected GUID string was given and guid.Guid accepted it
ExpectedGuidAccepted ==
    /\ guidCheck.outcome = "return"
    /\ args.expected_guid # <<>>

\* C21: for every string s that guid.Guid accepts, the 16 bytes stored are
\* TimeLow, TimeMid and TimeHighAndVersion little-endian, then
\* ClockSeqHighAndReserved, ClockSeqLow and the six Node bytes in order,
\* which is the layout efi_guid decodes; str(Guid(s)) is s in lower case,
\* leading zeroes kept; Guid(bytes(Guid(s))) equals Guid(s); and the Guid
\* of the bytes efi_guid builds from the fields of a decoded capsule
\* renders those fields as 8-4-4-4-12 hexadecimal digits
C21_GuidRoundTrip ==
    /\ ExpectedGuidAccepted =>
          LET s == args.expected_guid
              e == GuidFromStr(s)
              f == efi_guid_parse(e.b)
          IN  /\ e.ok /\ Len(e.b) = 16
              /\ f.TimeLow = HexInt(SubSeq(s, 1, 8))
              /\ f.TimeMid = HexInt(SubSeq(s, 10, 13))
              /\ f.TimeHighAndVersion = HexInt(SubSeq(s, 15, 18))
              /\ f.ClockSeqHighAndReserved = HexInt(SubSeq(s, 20, 21))
              /\ f.ClockSeqLow = HexInt(SubSeq(s, 22, 23))
              /\ \A i \in 1..6 :
                    f.Node[i] = HexInt(SubSeq(s, 23 + 2 * i, 24 + 2 * i))
              /\ GuidStr(e.b) = Lower(s)
              /\ GuidFromBytes(e.b) = e
    /\ Parsed =>
          LET id == Fmcih(decoded).UpdateImageTypeId
              t == GuidStr(efi_guid_build(id))
          IN  /\ Len(t) = 36
              /\ t = Lower(t)
              /\ HexInt(SubSeq(t, 1, 8)) = id.TimeLow
              /\ HexInt(SubSeq(t, 10, 13)) = id.TimeMid
              /\ HexInt(SubSeq(t, 15, 18)) = id.TimeHighAndVersion
              /\ HexInt(SubSeq(t, 20, 21)) = id.ClockSeqHighAndReserved
              /\ HexInt(SubSeq(t, 22, 23)) = id.ClockSeqLow
              /\ \A i \in 1..6 :
                    HexInt(SubSeq(t, 23 + 2 * i, 24 + 2 * i)) = id.Node[i]
              /\ \A i \in {9, 14, 19, 24} : t[i] = 45

\* C21 without the strings that end in a newline character: this part of
\* the claim holds
C21_CanonicalStrings ==
    (ExpectedGuidAccepted /\ Len(args.expected_guid) # 36) \/ C21_GuidRoundTrip

\* a 36-character string with upper-case digits and a leading zero was
\* accepted as the expected GUID
C21_WitnessCanonical ==
    /\ ExpectedGuidAccepted
    /\ args.expected_guid = GuidStrZeroes

\* C22: whatever 16 bytes the UpdateImageTypeId of the decoded capsule
\* holds, check_capsule_guid renders them as a canonical GUID string, prints
\* the line "Image type id GUID: ..." with that string when print_guid is
\* set, and runs the guid tool on it; the step raises only for an expected
\* GUID string that is not a GUID, never for the capsule's own GUID
C22_GuidIdentity ==
    Did("check_capsule_guid") =>
        LET t == GuidStr(efi_guid_build(Fmcih(decoded).UpdateImageTypeId)) IN
        /\ guidCheck.tool \in ToolAnswers
        /\ args.print_guid =>
              [line |-> "Image type id GUID", guid |-> t]
                  \in Range(guidCheck.stdout)
        /\ guidCheck.outcome = "raise" =>
              /\ args.expected_guid # <<>>
              /\ ~GuidFromStr(args.expected_guid).ok

\* C22 restricted to capsules whose UpdateImageTypeId passes the checks of
\* Guid.__init__: this part of the claim holds
C22_ValidTypeId ==
    (Parsed /\ ~GuidValid(efi_guid_build(Fmcih(decoded).UpdateImageTypeId)))
    \/ C22_GuidIdentity

\* C23: guid-tool.py, given a GUID string that guid.Guid accepts and a
\* usable database, exits with status 0 and prints one line: Unknown when
\* no entry of the database has that GUID, else the description of the
\* first entry that has it; its exit status is not 0 only when the GUID is
\* invalid or the database is unusable
C23_GuidTool ==
    steps = <<"guid-tool">> =>
        LET g == GuidFromStr(args.guid)
            db == LoadGuidsDb(file)
            matches == {i \in 1..Len(db.known) : db.known[i]._Guid = g.b}
        IN  /\ (g.ok /\ db.ok /\ ~args.details /\ ~args.print_c_define) =>
                  /\ status = "exit0"
                  /\ Len(stdout) = 1
                  /\ IF matches = {} THEN stdout[1].line = "Unknown"
                     ELSE \E i \in matches :
                             /\ \A j \in matches : i <= j
                             /\ stdout[1].line = db.known[i].description
            /\ status # "exit0" => ~g.ok \/ ~db.ok

\* guid-tool.py ends with exit status 1 and the error Invalid GUID
\* whatever its arguments and its database are
C23_AlwaysInvalid ==
    steps = <<"guid-tool">> =>
        /\ status = "exit1"
        /\ stdout = <<>>
        /\ log = <<[level |-> "ERROR", what |-> "Invalid GUID"]>>

\* the field value v can be stored in an unsigned 32-bit integer
IsUint32(v) == v >= 0 /\ v \div 65536 < 65536

\* C24: for a decoded capsule that passes every rule of the validation,
\* after de_authenticate, and after a tamper step that follows it,
\* CapsuleImageSize and UpdateImageSize are non-negative 32-bit values,
\* UpdateImageSize is the length of FirmwareImage, and the capsule encodes
C24_MutationConsistent ==
    (DeAuthenticated /\ FirstFailing(decoded) = 0) =>
        /\ IsUint32(capsule.CapsuleHeader.CapsuleImageSize)
        /\ IsUint32(Fmcih(capsule).UpdateImageSize)
        /\ Fmcih(capsule).UpdateImageSize = Len(Bui(capsule).FirmwareImage)
        /\ Build(capsule).ok

\* C24 for the capsules whose CapsuleImageSize is at least the size of the
\* authentication block that de_authenticate subtracts: this part of the
\* claim holds
C24_LargeEnoughImageSize ==
    (/\ DeAuthenticated
     /\ decoded.CapsuleHeader.CapsuleImageSize < OldAuthenticationSize)
    \/ C24_MutationConsistent

\* the steps of the script in the order of its statements
StepOrder ==
    <<"parse", "sanity_check_capsule", "check_capsule_guid",
      "de_authenticate", "tamper", "dump", "extract", "output">>

\* the place of step x in StepOrder
StepPos(x) == CHOOSE i \in 1..Len(StepOrder) : StepOrder[i] = x

\* C25: the steps of a run are taken from decode, validate, GUID check,
\* de-authenticate, tamper, dump, extract, save, each at most once and in
\* that order, the first three never skipped; what dump printed, what
\* extract wrote and what save wrote are taken from the capsule as it is
\* after the last mutation; and when a capsule is valid and its GUID line
\* is printed, the line "Valid authenticated capsule in FMP format" is the
\* first line of the output and the "Image type id GUID" line the second
C25_PipelineOrder ==
    /\ \A i \in 1..Len(steps) : steps[i] \in Range(StepOrder)
    /\ \A i, j \in 1..Len(steps) :
          i < j => StepPos(steps[i]) < StepPos(steps[j])
    /\ \A i \in 1..Len(steps) : i <= 3 => steps[i] = StepOrder[i]
    /\ Did("dump") => [line |-> "dump", capsule |-> capsule] \in Range(stdout)
    /\ Did("extract") =>
          extracted = [written |-> TRUE, complete |-> TRUE,
                       bytes |-> Bui(capsule).FirmwareImage]
    /\ Last = "output" =>
          LET out == Build(capsule) IN
          /\ saved.written
          /\ saved.complete = out.ok
          /\ saved.complete => saved.bytes = out.bytes
    /\ (/\ Did("check_capsule_guid")
        /\ \E i \in 1..Len(stdout) : stdout[i].line = "Image type id GUID"
        /\ FirstFailing(decoded) = 0)
       => /\ stdout[1] = ValidLine
          /\ stdout[2].line = "Image type id GUID"

\* C25 witness: the image was tampered with and then extracted, and the
\* file written holds the tampered image
C25_Witness ==
    /\ Did("tamper") /\ Last = "extract"
    /\ extracted.bytes = Bui(capsule).FirmwareImage
    /\ extracted.bytes # Bui(decoded).FirmwareImage

\* C25 witness for the output lines: a valid capsule, its GUID line printed
\* second
C25_WitnessLines ==
    /\ Did("check_capsule_guid")
    /\ FirstFailing(decoded) = 0
    /\ Len(stdout) >= 2
    /\ stdout[1] = ValidLine
    /\ stdout[2].line = "Image type id GUID"

\* the sizes of the parts of the capsule c, in the order of the file
PartSizes(c) ==
    <<28,
      Len(c.Padding),
      8 + 8 * Len(Fmch(c).ItemOffsetList),
      IF Fmcih(c).Version >= 3 THEN 48
      ELSE IF Fmcih(c).Version = 2 THEN 40 ELSE 32,
      IF HasAuthentication(c) THEN 8 + AuthHdr(c).dwLength ELSE 0,
      Len(Bui(c).FirmwareImage),
      Len(c.RemainingBytes)>>

\* the sum of the first k part sizes of c
SizeUpTo(c, k) ==
    LET p == PartSizes(c)
        t == [i \in 0..Len(p) |->
                 IF i = 0 THEN 0
                 ELSE IF i = 1 THEN p[1]
                 ELSE IF i = 2 THEN p[1] + p[2]
                 ELSE IF i = 3 THEN p[1] + p[2] + p[3]
                 ELSE IF i = 4 THEN p[1] + p[2] + p[3] + p[4]
                 ELSE IF i = 5 THEN p[1] + p[2] + p[3] + p[4] + p[5]
                 ELSE IF i = 6
                 THEN p[1] + p[2] + p[3] + p[4] + p[5] + p[6]
                 ELSE p[1] + p[2] + p[3] + p[4] + p[5] + p[6] + p[7]]
    IN  t[k]

\* C26: for every buffer that decodes, the sizes of CapsuleHeader (28),
\* Padding, the FMP header with its ItemOffsetList, the image header (32,
\* 40 or 48 bytes by Version), the authentication block if any,
\* FirmwareImage and RemainingBytes are non-negative and sum to the length
\* of the buffer, so no part lies past its end; Padding, FirmwareImage and
\* RemainingBytes are the bytes of the buffer at the places these sizes
\* give, RemainingBytes being everything after the single payload
C26_AccountsForEveryByte ==
    Parsed =>
        LET c == decoded IN
        /\ \A k \in 1..7 : PartSizes(c)[k] >= 0 /\ SizeUpTo(c, k) <= Len(file)
        /\ SizeUpTo(c, 7) = Len(file)
        /\ Len(c.Padding) = c.CapsuleHeader.HeaderSize - 28
        /\ c.Padding = Slice(file, 28, Len(c.Padding))
        /\ HasAuthentication(c) =>
              Len(Bui(c).FirmwareImageAuthentication.AuthInfo.CertData)
              = AuthHdr(c).dwLength - 24
        /\ Bui(c).FirmwareImage
           = Slice(file, SizeUpTo(c, 5), Len(Bui(c).FirmwareImage))
        /\ c.RemainingBytes
           = Slice(file, SizeUpTo(c, 6), Len(file) - SizeUpTo(c, 6))

\* C26 witness: a buffer with padding and with a byte after the payload
\* has been decoded
C26_Witness ==
    /\ Parsed
    /\ decoded.RemainingBytes # <<>>
    /\ Bui(decoded).FirmwareImage # <<>>

\* C26 witness: a buffer with padding has been decoded
C26_WitnessPadding ==
    /\ Parsed
    /\ decoded.Padding # <<>>

\* C27: every capsule that decode produces has HeaderSize >= 28 and, in
\* the authenticated shape, dwLength >= 24 and UpdateImageSize >= 8 +
\* dwLength; so when the validation runs on it neither entry 2
\* (HeaderSize >= 28) nor entry 15 (dwLength >= 9) returns false
C27_DecodedSizes ==
    Parsed =>
        /\ decoded.CapsuleHeader.HeaderSize >= 28
        /\ HasAuthentication(decoded) =>
              /\ AuthHdr(decoded).dwLength >= 24
              /\ Fmcih(decoded).UpdateImageSize >= 8 + AuthHdr(decoded).dwLength
        /\ \A k \in {2, 15} : TryBody(k, decoded) # "error"
        /\ Did("sanity_check_capsule") =>
              \A i \in 1..Len(checks.log) :
                  checks.log[i].entry \in {2, 15} =>
                      checks.log[i].what # "error"

\* C27 witness: the validation evaluated entries 2 and 15 on a decoded
\* capsule whose dwLength is the smallest that decodes
C27_Witness ==
    /\ Did("sanity_check_capsule")
    /\ Len(checks.evaluated) >= 15
    /\ HasAuthentication(decoded)
    /\ AuthHdr(decoded).dwLength = 24
    /\ checks.log[2].what = "debug"
    /\ checks.log[15].what = "debug"

\* de_authenticate returned on a capsule that passes every rule of the
\* validation
ValidDeAuthenticated ==
    /\ DeAuthenticated
    /\ FirstFailing(decoded) = 0

\* the capsule c with a FirmwareImage of 33 bytes, as the file of c with
\* that image and its two size fields adjusted decodes
WithLargeImage(c) ==
    LET grow == 33 - Len(Bui(c).FirmwareImage)
        c1 == [c EXCEPT !.CapsuleHeader.CapsuleImageSize = @ + grow]
        c2 == WithFmcih(c1, "UpdateImageSize", Fmcih(c).UpdateImageSize + grow)
    IN  [c2 EXCEPT !.CapsuleBody.Payload1.BinaryUpdateImage.FirmwareImage =
                       [i \in 1..33 |-> 195]]

\* the first rule a de-authenticated capsule c fails: the reduced
\* CapsuleImageSize (entry 4), else the reduced UpdateImageSize (entry
\* 10), else the cleared authentication flag (entry 14)
FirstRuleAfterDeAuthenticate(c) ==
    IF c.CapsuleHeader.CapsuleImageSize < 28 THEN 4
    ELSE IF Fmcih(c).UpdateImageSize <= 32 THEN 10
    ELSE 14

\* sanity_check_capsule without force on c stops at entry k, returns False
\* and does not print the line for a valid capsule
FailsAtRule(c, k) ==
    LET res == SanityCheck(c, FALSE) IN
    /\ ~res.r /\ ~res.raised
    /\ res.stdout = <<>>
    /\ FirstFailing(c) = k
    /\ res.evaluated = [i \in 1..k |-> i]
    /\ res.log[k].what = "error"

\* C28 as stated: after de_authenticate on a capsule that passed the
\* validation, sanity_check_capsule without force returns False at entry
\* 14 (the authentication flag) and does not print the valid-capsule line,
\* on the capsule itself and on its encoding decoded again
C28_AsStated ==
    ValidDeAuthenticated =>
        /\ FailsAtRule(capsule, 14)
        /\ LET out == Build(capsule) IN
           /\ out.ok
           /\ Parse(out.bytes).ok
           /\ FailsAtRule(Parse(out.bytes).v, 14)

\* C28 as it holds: after de_authenticate on a capsule that passed the
\* validation, sanity_check_capsule without force returns False and does
\* not print the valid-capsule line; the entry it stops at is 4 when the
\* reduced CapsuleImageSize is below 28, else 10 when the reduced
\* UpdateImageSize is not above 32, else 14; an encoding of the capsule
\* decodes to a capsule with the same result; and with an image of 33
\* bytes and a CapsuleImageSize that stays at 28 or more the entry is 14
C28_DeAuthenticatedInvalid ==
    (ValidDeAuthenticated /\ Last = "de_authenticate") =>
        /\ FailsAtRule(capsule, FirstRuleAfterDeAuthenticate(capsule))
        /\ LET out == Build(capsule) IN
           out.ok =>
              /\ Parse(out.bytes).ok
              /\ SanityCheck(Parse(out.bytes).v, FALSE)
                 = SanityCheck(capsule, FALSE)
        /\ LET big == WithLargeImage(decoded)
               d == DeAuthenticate(big)
           IN  /\ FirstFailing(big) = 0
               /\ d.outcome = "return"
               /\ FailsAtRule(d.v, FirstRuleAfterDeAuthenticate(d.v))
               /\ d.v.CapsuleHeader.CapsuleImageSize >= 28 =>
                     /\ FailsAtRule(d.v, 14)
                     /\ Build(d.v).ok
                     /\ SanityCheck(Parse(Build(d.v).bytes).v, FALSE)
                        = SanityCheck(d.v, FALSE)

\* C28 witness: a valid capsule was de-authenticated, its reduced
\* UpdateImageSize makes entry 10 the first to fail, and with a 33-byte
\* image entry 14 is the first
C28_Witness ==
    /\ ValidDeAuthenticated
    /\ Last = "de_authenticate"
    /\ FirstFailing(capsule) = 10
    /\ Build(capsule).ok
    /\ FirstFailing(DeAuthenticate(WithLargeImage(decoded)).v) = 14

\* the capsule c without the fields de_authenticate may change
OutsideDeAuthenticate(c) ==
    LET c1 == [c EXCEPT !.CapsuleHeader.CapsuleImageSize = 0]
        c2 == WithFmcih(WithFmcih(c1, "UpdateImageSize", 0),
                        "ImageCapsuleSupport", <<>>)
    IN  [c2 EXCEPT !.CapsuleBody.Payload1.BinaryUpdateImage =
                       [FirmwareImage |-> @.FirmwareImage]]

\* the capsule c without its FirmwareImage
OutsideFirmwareImage(c) ==
    [c EXCEPT !.CapsuleBody.Payload1.BinaryUpdateImage.FirmwareImage = <<>>]

\* C29: a tamper step changes at most one byte of FirmwareImage and no
\* other field, every entry of the checks list gives the same outcome
\* before and after it, and on a capsule that was not de-authenticated
\* sanity_check_capsule gives after it the result it gave when the script
\* called it; a de_authenticate
\* step changes nothing but ImageCapsuleSupport, CapsuleImageSize,
\* UpdateImageSize and the authentication block, so FirmwareImage, Padding
\* and RemainingBytes are kept and extract_image writes the same bytes
\* before and after it
C29_MutatorFrame ==
    [][/\ steps' = Append(steps, "tamper") =>
             LET old == Bui(capsule).FirmwareImage
                 new == Bui(capsule').FirmwareImage
             IN  /\ OutsideFirmwareImage(capsule')
                    = OutsideFirmwareImage(capsule)
                 /\ Len(new) = Len(old)
                 /\ Cardinality({i \in 1..Len(old) : new[i] # old[i]}) <= 1
                 /\ \A k \in 1..NumChecks :
                       TryBody(k, capsule') = TryBody(k, capsule)
                 /\ ~Did("de_authenticate") =>
                       SanityCheck(capsule', args.force) = checks
       /\ steps' = Append(steps, "de_authenticate") =>
             /\ OutsideDeAuthenticate(capsule')
                = OutsideDeAuthenticate(capsule)
             /\ capsule'.Padding = capsule.Padding
             /\ capsule'.RemainingBytes = capsule.RemainingBytes
             /\ Bui(capsule').FirmwareImage = Bui(capsule).FirmwareImage
             /\ ExtractImage(capsule') = ExtractImage(capsule)]_vars

\* C29 witness: de_authenticate and then tamper have run on a capsule
\* with padding, and both changed the capsule
C29_Witness ==
    /\ DeAuthenticated /\ Last = "tamper"
    /\ Bui(capsule).FirmwareImage # Bui(decoded).FirmwareImage
    /\ Fmcih(capsule).UpdateImageSize # Fmcih(decoded).UpdateImageSize

\* C30: a tamper step on a capsule whose FirmwareImage is empty ends the
\* run with an uncaught error and leaves the capsule as it was; it is the
\* last step of the run, so nothing is dumped, extracted or saved after it
EmptyImage(c) == c # NoCapsule /\ Len(Bui(c).FirmwareImage) = 0

C30_TamperEmptyImage ==
    /\ [](Did("tamper") /\ EmptyImage(capsule) =>
              /\ status = "traceback"
              /\ Last = "tamper"
              /\ capsule = IF Did("de_authenticate")
                           THEN DeAuthenticate(decoded).v
                           ELSE decoded
              /\ ~Did("dump") /\ ~Did("extract") /\ ~Did("output")
              /\ extracted = NoFile /\ saved = NoFile)
    /\ [][EmptyImage(capsule) /\ steps' = Append(steps, "tamper") =>
              /\ capsule' = capsule
              /\ status' = "traceback"
              /\ UNCHANGED <<stdout, extracted, saved>>]_vars

\* tamper has failed on an empty image of a capsule accepted under --force
C30_Witness ==
    /\ Last = "tamper" /\ status = "traceback"
    /\ EmptyImage(capsule)
    /\ args.force /\ checks.stdout = <<>>
    /\ ~Did("de_authenticate")

\* tamper has failed on the empty image of a de-authenticated capsule
C30_WitnessDeAuthenticated ==
    /\ Last = "tamper" /\ status = "traceback"
    /\ EmptyImage(capsule)
    /\ DeAuthenticated

=============================================================================
